---- MODULE Spec2Model ----
(***************************************************************************)
(* A model of the terminal process manager: the shortcut registry and      *)
(* manager (internal/ui/shortcuts) and the Bubble Tea view/event state     *)
(* machine (internal/ui/models).                                           *)
(*                                                                         *)
(* The two halves do not reference each other in the source (MainModel     *)
(* never calls the ShortcutManager), so each has its own specifications,   *)
(* whose steps leave the other half's variables alone: SpecShortcuts for   *)
(* the registry, SpecSystem for the ShortcutSystem built on it, SpecParse  *)
(* for ParseKey, and Spec, SpecList, SpecFilter and SpecSort for the event *)
(* loop, which differ in the keys pressed.  SpecResolve, SpecPreset,       *)
(* SpecExport and SpecToggle are further slices of the shortcut half (key  *)
(* events against parsed bindings, presets and configuration loading, the  *)
(* export round trip, enabling and disabling), as are SpecCreate,          *)
(* SpecMaintain, SpecUpdate and SpecRoundTrip (validated creation from a   *)
(* registry without duplicates, conflict resolution and deletion, listing  *)
(* and updating, key strings written and parsed again); SpecResize and     *)
(* SpecDoc are further slices of the event loop (window sizes, documented  *)
(* keys).                                                                  *)
(***************************************************************************)
EXTENDS Integers, Sequences, FiniteSets, Bags, TLC

(***************************************************************************)
(* Bounds of the model.                                                    *)
(***************************************************************************)
\* registrations made in one behaviour of the shortcut registry
MaxShortcuts == 3
\* a step adds commands only up to this many commands and messages in flight
MaxInFlight == 2
\* ProcessFilter objects alive at once (the current one and detached ones)
MaxFilterObjs == 2

(***************************************************************************)
(*                    PART I: internal/ui/shortcuts                        *)
(***************************************************************************)
VARIABLES
    shortcuts,   \* ShortcutRegistry.shortcuts : Context -> list of Shortcut
    conflicts,   \* ShortcutRegistry.conflicts : ShortcutKey -> list of Shortcut
    context,     \* ShortcutManager.context
    nextHandler, \* identity of the next handler closure registered
    hkMsg,       \* the key event of the HandleKey call just made (or NoMsg)
    hkCmd,       \* the command that call returned (NoCmd: nil)
    config,      \* *ShortcutSystem.config : ShortcutConfig
    sysOp,       \* the ShortcutSystem call just made and the error it returned
    parsed       \* the last two ParseKey calls: key string and ShortcutKey

sysVars == <<config, sysOp, parsed>>

regVars == <<shortcuts, conflicts, context, nextHandler, hkMsg, hkCmd,
             config, sysOp, parsed>>

\* the view/event state machine (Part II)
VARIABLES
    currentView, \* MainModel.currentView
    quitting,    \* MainModel.quitting
    mainSize,    \* MainModel.width, MainModel.height
    processes,   \* *MainModel.processes : ProcessesModel
    details,     \* *MainModel.details   : DetailsModel
    stats,       \* *MainModel.stats     : StatsModel
    settings,    \* *MainModel.settings  : SettingsModel
    help,        \* *MainModel.help      : HelpModel
    filters,     \* the ProcessFilter objects ProcessesModel.filter may point to
    pending,     \* bag of the commands running and the messages not yet handled
    live,        \* the PIDs of the operating system's live processes
    terminated,  \* the Bubble Tea program has handled tea.Quit
    last         \* the event handled last

uiVars == <<currentView, quitting, mainSize, processes, details, stats, settings,
            help, filters, pending, live, terminated, last>>

vars == <<shortcuts, conflicts, context, nextHandler, hkMsg, hkCmd,
          config, sysOp, parsed,
          currentView, quitting, mainSize, processes, details, stats, settings,
          help, filters, pending, live, terminated, last>>

\* Modifier (types.go:17-26)
ModNone == "None"
ModCtrl == "Ctrl"
ModAlt == "Alt"
ModShift == "Shift"
ModCtrlShift == "Ctrl+Shift"
ModCtrlAlt == "Ctrl+Alt"
ModAltShift == "Alt+Shift"
ModCtrlAltShift == "Ctrl+Alt+Shift"

\* Context (types.go:65-74); the contexts the model's inputs are drawn from
ContextGlobal == "Global"
ContextProcesses == "Processes"
ContextDetails == "Details"
Contexts == {ContextGlobal, ContextProcesses, ContextDetails}

\* key events: tea.KeyMsg as the code reads it (String(), Ctrl, Alt, Shift)
KeyMsgs ==
    { [Str |-> "k", Ctrl |-> FALSE, Alt |-> FALSE, Shift |-> FALSE],
      [Str |-> "k", Ctrl |-> TRUE, Alt |-> FALSE, Shift |-> FALSE] }
NoMsg == [Str |-> "", Ctrl |-> FALSE, Alt |-> FALSE, Shift |-> FALSE]

\* the nil tea.Cmd; a handler's command is identified by the handler closure
NoCmd == 0

\* a mutant: the single flags are tested before their combinations
getModifierFromMsg_SingleFirst(msg) ==
    IF msg.Ctrl THEN ModCtrl
    ELSE IF msg.Alt THEN ModAlt
    ELSE IF msg.Shift THEN ModShift
    ELSE ModNone

\* ShortcutManager.getModifierFromMsg
getModifierFromMsg(msg) ==
    IF msg.Ctrl /\ msg.Alt /\ msg.Shift THEN ModCtrlAltShift
    ELSE IF msg.Ctrl /\ msg.Alt THEN ModCtrlAlt
    ELSE IF msg.Ctrl /\ msg.Shift THEN ModCtrlShift
    ELSE IF msg.Alt /\ msg.Shift THEN ModAltShift
    ELSE IF msg.Ctrl THEN ModCtrl
    ELSE IF msg.Alt THEN ModAlt
    ELSE IF msg.Shift THEN ModShift
    ELSE ModNone

\* A Go string is modelled as the sequence of its characters where the code
\* takes it apart (strings.Split, strings.ToLower), and as a TLA+ string
\* where it only compares it.  Str is the string of a character sequence.
RECURSIVE Str(_)
Str(cs) == IF cs = <<>> THEN "" ELSE cs[1] \o Str(Tail(cs))

\* strings.ToLower, on the letters that occur in the model's key strings
LowerChar(c) ==
    CASE c = "A" -> "a" [] c = "C" -> "c" [] c = "F" -> "f" [] c = "H" -> "h"
      [] c = "I" -> "i" [] c = "K" -> "k" [] c = "L" -> "l" [] c = "R" -> "r"
      [] c = "S" -> "s" [] c = "T" -> "t"
      [] OTHER -> c
ToLower(cs) == [i \in 1..Len(cs) |-> LowerChar(cs[i])]

\* strings.Split(s, "+"): the pieces between the separators, at least one
RECURSIVE SplitFrom(_, _, _)
SplitFrom(cs, i, cur) ==
    IF i > Len(cs) THEN <<cur>>
    ELSE IF cs[i] = "+" THEN <<cur>> \o SplitFrom(cs, i + 1, <<>>)
    ELSE SplitFrom(cs, i + 1, Append(cur, cs[i]))
Split(cs) == SplitFrom(cs, 1, <<>>)

\* a mutant: the modifier tokens are compared as written
ModifierToken_AsWritten(mod) == Str(mod)

\* strings.ToLower(mod) of the switch in ParseKey
ModifierToken(mod) == Str(ToLower(mod))

\* ParseKey: the ShortcutKey of a key string
ParseKey(keyStr) ==
    LET parts == Split(keyStr)
        n == Len(parts)
        toks == { ModifierToken(parts[i]) : i \in 1..(n - 1) }
        hasCtrl == "ctrl" \in toks
        hasAlt == "alt" \in toks
        hasShift == "shift" \in toks
    IN  IF n = 1 THEN [Key |-> Str(parts[1]), Modifier |-> ModNone]
        ELSE [Key |-> Str(parts[n]),
              Modifier |->
                 IF hasCtrl /\ hasAlt /\ hasShift THEN ModCtrlAltShift
                 ELSE IF hasCtrl /\ hasAlt THEN ModCtrlAlt
                 ELSE IF hasCtrl /\ hasShift THEN ModCtrlShift
                 ELSE IF hasAlt /\ hasShift THEN ModAltShift
                 ELSE IF hasCtrl THEN ModCtrl
                 ELSE IF hasAlt THEN ModAlt
                 ELSE IF hasShift THEN ModShift
                 ELSE ModNone]

\* the ShortcutKey HandleKey builds from an event (registry.go:42-45)
MsgKey(msg) == [Key |-> msg.Str, Modifier |-> getModifierFromMsg(msg)]

\* keys that shortcuts are registered under
RegKeys == { MsgKey(m) : m \in KeyMsgs }

GetShortcuts(sc, ctx) == sc[ctx]

\* the scan of GetShortcut (types.go:136-140): the index of the first entry
\* from i on whose key is key and that is enabled, 0 when there is none
RECURSIVE ScanEnabled(_, _, _)
ScanEnabled(l, key, i) ==
    IF i > Len(l) THEN 0
    ELSE IF l[i].Key = key /\ l[i].Enabled THEN i
    ELSE ScanEnabled(l, key, i + 1)

\* the scan of Enable/DisableShortcut (registry.go:118-123): the index of the
\* first entry from i on whose key is key, 0 when there is none
RECURSIVE ScanKey(_, _, _)
ScanKey(l, key, i) ==
    IF i > Len(l) THEN 0
    ELSE IF l[i].Key = key THEN i
    ELSE ScanKey(l, key, i + 1)

\* a mutant: the first match of the context's list, enabled or not
GetShortcut_IgnoreEnabled(sc, key, ctx) ==
    LET l == sc[ctx]
        i == ScanKey(l, key, 1)
    IN  IF i = 0 THEN <<>> ELSE <<l[i]>>

\* GetShortcut: the first enabled match of the context's list, as <<s>>, or
\* <<>> for nil
GetShortcut(sc, key, ctx) ==
    LET l == sc[ctx]
        i == ScanEnabled(l, key, 1)
    IN  IF i = 0 THEN <<>> ELSE <<l[i]>>

\* a mutant: every bucket is reported, also one with a single shortcut
GetConflicts_All(cf) == cf

\* ShortcutManager.GetConflicts: the buckets with more than one shortcut
GetConflicts(cf) == [k \in {j \in DOMAIN cf : Len(cf[j]) > 1} |-> cf[k]]

\* a mutant: the global context is consulted before the current one
HandleKey_GlobalFirst(sc, ctx, msg) ==
    LET g == GetShortcut(sc, MsgKey(msg), ContextGlobal)
        c == GetShortcut(sc, MsgKey(msg), ctx)
    IN  IF g # <<>> /\ g[1].Enabled THEN g[1].Handler
        ELSE IF c # <<>> /\ c[1].Enabled THEN c[1].Handler
        ELSE NoCmd

\* a mutant: no fallback to the global context
HandleKey_NoFallback(sc, ctx, msg) ==
    LET c == GetShortcut(sc, MsgKey(msg), ctx)
    IN  IF c # <<>> /\ c[1].Enabled THEN c[1].Handler ELSE NoCmd

\* a mutant: a shortcut found is run whether enabled or not
HandleKey_RunsDisabled(sc, ctx, msg) ==
    LET c == GetShortcut_IgnoreEnabled(sc, MsgKey(msg), ctx)
        g == GetShortcut_IgnoreEnabled(sc, MsgKey(msg), ContextGlobal)
    IN  IF c # <<>> THEN c[1].Handler
        ELSE IF ctx # ContextGlobal /\ g # <<>> THEN g[1].Handler
        ELSE NoCmd

\* ShortcutManager.HandleKey: the command returned for a key event
HandleKey(sc, ctx, msg) ==
    LET c == GetShortcut(sc, MsgKey(msg), ctx)
    IN  IF c # <<>> /\ c[1].Enabled THEN c[1].Handler
        ELSE IF ctx # ContextGlobal
             THEN LET g == GetShortcut(sc, MsgKey(msg), ContextGlobal)
                  IN  IF g # <<>> /\ g[1].Enabled THEN g[1].Handler ELSE NoCmd
             ELSE NoCmd

\* a mutant: the loop has no break, every entry for the key gets the flag
SetFirstEnabled_NoBreak(l, key, b) ==
    [i \in 1..Len(l) |-> IF l[i].Key = key THEN [l[i] EXCEPT !.Enabled = b] ELSE l[i]]

\* the list with the Enabled flag of its first entry for key set to b
SetFirstEnabled(l, key, b) ==
    LET i == ScanKey(l, key, 1)
    IN  IF i = 0 THEN l ELSE [l EXCEPT ![i].Enabled = b]

\* before NewShortcutSystem has run there is no configuration
NoConfig == [Shortcuts |-> <<>>, ActivePreset |-> ""]
\* no ShortcutSystem call was the last step
NoOp == [op |-> "", str |-> <<>>, name |-> "", ctx |-> "", err |-> ""]

RegInit ==
    /\ shortcuts = [c \in Contexts |-> <<>>]
    /\ conflicts = <<>>
    /\ context = ContextGlobal
    /\ nextHandler = 1
    /\ hkMsg = NoMsg
    /\ hkCmd = NoCmd
    /\ config = NoConfig
    /\ sysOp = NoOp
    /\ parsed = <<>>

\* ShortcutRegistry.RegisterShortcut
RegisterShortcut(s) ==
    /\ nextHandler <= MaxShortcuts
    /\ shortcuts' = [shortcuts EXCEPT ![s.Context] = Append(@, s)]
    /\ conflicts' =
          IF s.Key \in DOMAIN conflicts
          THEN [conflicts EXCEPT ![s.Key] = Append(@, s)]
          ELSE [k \in DOMAIN conflicts \cup {s.Key} |->
                   IF k = s.Key THEN <<s>> ELSE conflicts[k]]
    /\ nextHandler' = nextHandler + 1
    /\ hkMsg' = NoMsg
    /\ hkCmd' = NoCmd
    /\ UNCHANGED context
    /\ UNCHANGED sysVars
    /\ UNCHANGED uiVars

\* ShortcutManager.SetContext
SetContext(c) ==
    /\ context' = c
    /\ hkMsg' = NoMsg
    /\ hkCmd' = NoCmd
    /\ UNCHANGED <<shortcuts, conflicts, nextHandler>>
    /\ UNCHANGED sysVars
    /\ UNCHANGED uiVars

\* ShortcutManager.EnableShortcut
EnableShortcut(key, c) ==
    /\ shortcuts' = [shortcuts EXCEPT ![c] = SetFirstEnabled(@, key, TRUE)]
    /\ hkMsg' = NoMsg
    /\ hkCmd' = NoCmd
    /\ UNCHANGED <<conflicts, context, nextHandler>>
    /\ UNCHANGED sysVars
    /\ UNCHANGED uiVars

\* ShortcutManager.DisableShortcut
DisableShortcut(key, c) ==
    /\ shortcuts' = [shortcuts EXCEPT ![c] = SetFirstEnabled(@, key, FALSE)]
    /\ hkMsg' = NoMsg
    /\ hkCmd' = NoCmd
    /\ UNCHANGED <<conflicts, context, nextHandler>>
    /\ UNCHANGED sysVars
    /\ UNCHANGED uiVars

\* a call of ShortcutManager.HandleKey, its result recorded
DoHandleKey(msg) ==
    /\ hkMsg' = msg
    /\ hkCmd' = HandleKey(shortcuts, context, msg)
    /\ UNCHANGED <<shortcuts, conflicts, context, nextHandler>>
    /\ UNCHANGED sysVars
    /\ UNCHANGED uiVars

RegNext ==
    \/ \E key \in RegKeys, c \in Contexts, e \in BOOLEAN :
          RegisterShortcut([Key |-> key, Action |-> "act", Description |-> "desc",
                            Context |-> c, Handler |-> nextHandler, Enabled |-> e])
    \/ \E c \in Contexts : SetContext(c)
    \/ \E key \in RegKeys, c \in Contexts : EnableShortcut(key, c)
    \/ \E key \in RegKeys, c \in Contexts : DisableShortcut(key, c)
    \/ \E msg \in KeyMsgs : DoHandleKey(msg)

(***************************************************************************)
(* ShortcutSystem: the configuration, its application to the registry and  *)
(* the validated creation of shortcuts.                                    *)
(***************************************************************************)
\* ShortcutConfigItem, with the key of the Shortcuts map it is stored under
ConfigItem(name, key, action, desc, ctx, enabled) ==
    [Name |-> name, Key |-> key, Action |-> action, Description |-> desc,
     Context |-> ctx, Enabled |-> enabled]

\* the characters of "ctrl+"
CtrlPlus == <<"c", "t", "r", "l", "+">>

\* getDefaultShortcuts: the items of the compiled-in configuration
getDefaultShortcuts ==
    << ConfigItem("global_quit", CtrlPlus \o <<"q">>, "quit",
                  "Quit application", "Global", TRUE),
       ConfigItem("global_help", CtrlPlus \o <<"h">>, "help",
                  "Show help", "Global", TRUE),
       ConfigItem("global_refresh", CtrlPlus \o <<"r">>, "refresh",
                  "Refresh current view", "Global", TRUE),
       ConfigItem("nav_processes", CtrlPlus \o <<"p">>, "view_processes",
                  "Switch to Processes view", "Global", TRUE),
       ConfigItem("nav_details", CtrlPlus \o <<"d">>, "view_details",
                  "Switch to Details view", "Global", TRUE),
       ConfigItem("nav_stats", CtrlPlus \o <<"t">>, "view_stats",
                  "Switch to Statistics view", "Global", TRUE),
       ConfigItem("nav_settings", CtrlPlus \o <<",">>, "view_settings",
                  "Switch to Settings view", "Global", TRUE),
       ConfigItem("process_kill", CtrlPlus \o <<"k">>, "kill_process",
                  "Kill selected process", "Processes", TRUE),
       ConfigItem("process_export", CtrlPlus \o <<"e">>, "export",
                  "Export process data", "Processes", TRUE),
       ConfigItem("filter_search", CtrlPlus \o <<"f">>, "search",
                  "Open search dialog", "Processes", TRUE),
       ConfigItem("sort_cpu", CtrlPlus \o <<"o">>, "sort_cpu",
                  "Sort by CPU usage", "Processes", TRUE),
       ConfigItem("sort_memory", CtrlPlus \o <<"m">>, "sort_memory",
                  "Sort by memory usage", "Processes", TRUE) >>

\* the configuration NewShortcutSystem and LoadConfig build from the defaults
DefaultConfig == [Shortcuts |-> getDefaultShortcuts, ActivePreset |-> "default"]

\* configurations a shortcuts.json written earlier may hold: one without
\* fields, and one with a key in upper-case tokens, a disabled item, the
\* same key twice and a context name parseContext does not know
StoredConfigs ==
    { [Shortcuts |-> <<>>, ActivePreset |-> ""],
      [Shortcuts |->
          << ConfigItem("Processes_kill_process", <<"C", "T", "R", "L", "+", "k">>,
                        "kill_process", "Kill selected process", "Processes", TRUE),
             ConfigItem("Details_kill_process", CtrlPlus \o <<"k">>,
                        "kill_process", "Kill selected process", "Details", FALSE),
             ConfigItem("Other_help", <<"k">>, "help", "Show help", "Other", TRUE) >>,
       ActivePreset |-> "custom"] }

\* LoadConfig: an error (directory, read or parse failure, or the default
\* file could not be saved), the defaults when there was no file, or the
\* configuration stored in the file
LoadResults ==
    {[err |-> TRUE, config |-> NoConfig]}
       \cup {[err |-> FALSE, config |-> c] : c \in {DefaultConfig} \cup StoredConfigs}

\* parseContext, for the names of the model's contexts and unknown names
parseContext(contextStr) ==
    IF contextStr \in Contexts THEN contextStr ELSE ContextGlobal

\* the actions of the configurations, in the order of getDefaultShortcuts
ActionNames ==
    [i \in 1..Len(getDefaultShortcuts) |-> getDefaultShortcuts[i].Action]

\* getHandlerForAction: the closure is determined by the action; its
\* identity lies beyond those of the handlers handed to CreateShortcut
getHandlerForAction(action) ==
    MaxShortcuts + 1 + (CHOOSE i \in 1..Len(ActionNames) : ActionNames[i] = action)

\* NewShortcutRegistry
NewShortcutRegistry == [shortcuts |-> [c \in Contexts |-> <<>>], conflicts |-> <<>>]

\* ShortcutRegistry.RegisterShortcut on a registry value
Register(reg, s) ==
    [shortcuts |-> [reg.shortcuts EXCEPT ![s.Context] = Append(@, s)],
     conflicts |->
        IF s.Key \in DOMAIN reg.conflicts
        THEN [reg.conflicts EXCEPT ![s.Key] = Append(@, s)]
        ELSE [k \in DOMAIN reg.conflicts \cup {s.Key} |->
                 IF k = s.Key THEN <<s>> ELSE reg.conflicts[k]]]

\* the Shortcut ApplyConfig makes of a configuration item
ItemShortcut(item) ==
    [Key |-> ParseKey(item.Key), Action |-> item.Action,
     Description |-> item.Description, Context |-> parseContext(item.Context),
     Handler |-> getHandlerForAction(item.Action), Enabled |-> item.Enabled]

\* the loop of ApplyConfig from item i on
RECURSIVE ApplyFrom(_, _, _)
ApplyFrom(reg, items, i) ==
    IF i > Len(items) THEN reg
    ELSE ApplyFrom(Register(reg, ItemShortcut(items[i])), items, i + 1)

\* a mutant: the registry is not cleared before the items are registered
ApplyConfig_NoClear(items) ==
    ApplyFrom([shortcuts |-> shortcuts, conflicts |-> conflicts], items, 1)

\* ShortcutManager.ApplyConfig, the items ranged over in the order given
ApplyConfig(items) == ApplyFrom(NewShortcutRegistry, items, 1)

\* the orders in which range visits config.Shortcuts: Go starts a map
\* iteration at a random place and wraps around
MapOrders(items) ==
    IF items = <<>> THEN {<<>>}
    ELSE { [i \in 1..Len(items) |-> items[((i - 1 + r) % Len(items)) + 1]] :
             r \in 0..(Len(items) - 1) }

\* a mutant: no shortcuts when the configuration cannot be loaded
ConfigOnError_Empty == [Shortcuts |-> <<>>, ActivePreset |-> "default"]

\* the configuration NewShortcutSystem uses when LoadConfig returns an error
ConfigOnError == [Shortcuts |-> getDefaultShortcuts, ActivePreset |-> "default"]

\* NewShortcutSystem, the constructor: it runs once, before any other call
\* on the system.  The registry NewShortcutManager fills is replaced by the
\* one ApplyConfig builds.
NewShortcutSystem(res) ==
    LET cfg == IF res.err THEN ConfigOnError ELSE res.config
    IN  \E order \in MapOrders(cfg.Shortcuts) :
           /\ sysOp = NoOp
           /\ shortcuts' = ApplyConfig(order).shortcuts
           /\ conflicts' = ApplyConfig(order).conflicts
           /\ config' = cfg
           /\ context' = ContextGlobal
           /\ sysOp' = [op |-> "new", str |-> <<>>, name |-> "", ctx |-> "",
                        err |-> IF res.err THEN "load" ELSE ""]
           /\ hkMsg' = NoMsg
           /\ hkCmd' = NoCmd
           /\ UNCHANGED <<nextHandler, parsed>>
           /\ UNCHANGED uiVars

\* a mutant: only the empty key is rejected
ValidateShortcut_EmptyOnly(cf, key) == IF key.Key = "" THEN "empty" ELSE ""

\* ShortcutSystem.ValidateShortcut: the error returned, "" for nil
ValidateShortcut(cf, key) ==
    IF key.Key = "" THEN "empty"
    ELSE IF key \in DOMAIN GetConflicts(cf) /\ Len(GetConflicts(cf)[key]) > 1
         THEN "conflict"
         ELSE ""

\* ShortcutSystem.CreateShortcut, on the system constructed
CreateShortcut(keyStr, ctx) ==
    LET key == ParseKey(keyStr)
        err == ValidateShortcut(conflicts, key)
        reg == Register([shortcuts |-> shortcuts, conflicts |-> conflicts],
                        [Key |-> key, Action |-> "act", Description |-> "desc",
                         Context |-> ctx, Handler |-> nextHandler, Enabled |-> TRUE])
    IN  /\ sysOp # NoOp
        /\ err = "" => nextHandler <= MaxShortcuts
        /\ shortcuts' = IF err = "" THEN reg.shortcuts ELSE shortcuts
        /\ conflicts' = IF err = "" THEN reg.conflicts ELSE conflicts
        /\ nextHandler' = IF err = "" THEN nextHandler + 1 ELSE nextHandler
        /\ sysOp' = [op |-> "create", str |-> keyStr, name |-> "", ctx |-> ctx,
                     err |-> err]
        /\ hkMsg' = NoMsg
        /\ hkCmd' = NoCmd
        /\ UNCHANGED <<context, config, parsed>>
        /\ UNCHANGED uiVars

\* the key strings handed to CreateShortcut
CreateKeys ==
    { <<"k">>, CtrlPlus \o <<"k">>, <<"a", "l", "t", "+">> \o CtrlPlus \o <<"k">>,
      <<>>, CtrlPlus }

\* the contexts shortcuts are created in
CreateContexts == {ContextGlobal, ContextProcesses}

\* shortcuts[name] = item on the map of a preset: the item stored under the
\* name is replaced
Override(items, item) ==
    [i \in 1..Len(items) |-> IF items[i].Name = item.Name THEN item ELSE items[i]]

\* getVimShortcuts
getVimShortcuts ==
    Override(Override(Override(getDefaultShortcuts,
        ConfigItem("global_quit", <<":", "q">>, "quit",
                   "Quit application", "Global", TRUE)),
        ConfigItem("process_kill", <<"d", "d">>, "kill_process",
                   "Kill selected process", "Processes", TRUE)),
        ConfigItem("filter_search", <<"/">>, "search",
                   "Open search dialog", "Processes", TRUE))

\* getEmacsShortcuts
getEmacsShortcuts ==
    Override(Override(Override(getDefaultShortcuts,
        ConfigItem("global_quit", CtrlPlus \o <<"x", " ">> \o CtrlPlus \o <<"c">>,
                   "quit", "Quit application", "Global", TRUE)),
        ConfigItem("global_help", CtrlPlus \o <<"h">>, "help",
                   "Show help", "Global", TRUE)),
        ConfigItem("filter_search", CtrlPlus \o <<"s">>, "search",
                   "Open search dialog", "Processes", TRUE))

\* DefaultPresets: the names and the Shortcuts of each
PresetNames == {"default", "vim", "emacs"}
DefaultPresets(name) ==
    CASE name = "default" -> getDefaultShortcuts
      [] name = "vim" -> getVimShortcuts
      [] name = "emacs" -> getEmacsShortcuts

\* the names handed to ApplyPreset: those of the presets and one of none
PresetInputs == PresetNames \cup {"nano"}

\* the registries ApplyConfig may build of a configuration's items, one for
\* each order of the range over the map
Applied(items) == { ApplyConfig(order) : order \in MapOrders(items) }

\* the registries ApplyConfig may build of each preset
PresetRegistries == [name \in PresetNames |-> Applied(DefaultPresets(name))]

\* the registries ApplyConfig may build of each configuration loaded
LoadedRegistries ==
    [res \in {r \in LoadResults : ~r.err} |-> Applied(res.config.Shortcuts)]

\* ShortcutSystem.ApplyPreset
ApplyPreset(presetName) ==
    IF presetName \notin PresetNames
    THEN /\ sysOp # NoOp
         /\ sysOp' = [op |-> "preset", str |-> <<>>, name |-> presetName,
                      ctx |-> "", err |-> "not found"]
         /\ hkMsg' = NoMsg
         /\ hkCmd' = NoCmd
         /\ UNCHANGED <<shortcuts, conflicts, context, nextHandler, config, parsed>>
         /\ UNCHANGED uiVars
    ELSE \E reg \in PresetRegistries[presetName] :
            /\ sysOp # NoOp
            /\ config' = [Shortcuts |-> DefaultPresets(presetName),
                          ActivePreset |-> presetName]
            /\ shortcuts' = reg.shortcuts
            /\ conflicts' = reg.conflicts
            /\ sysOp' = [op |-> "preset", str |-> <<>>, name |-> presetName,
                         ctx |-> "", err |-> ""]
            /\ hkMsg' = NoMsg
            /\ hkCmd' = NoCmd
            /\ UNCHANGED <<context, nextHandler, parsed>>
            /\ UNCHANGED uiVars

\* a mutant: the result of LoadConfig is stored before the error is looked at
ConfigAfterLoad_Stored(cfg, res) == res.config

\* s.config after ShortcutSystem.LoadConfig: assigned only when LoadConfig
\* returned no error
ConfigAfterLoad(cfg, res) == IF res.err THEN cfg ELSE res.config

\* ShortcutSystem.LoadConfig
SystemLoadConfig(res) ==
    \E reg \in (IF res.err THEN {NewShortcutRegistry} ELSE LoadedRegistries[res]) :
       /\ sysOp # NoOp
       /\ config' = ConfigAfterLoad(config, res)
       /\ shortcuts' = IF res.err THEN shortcuts ELSE reg.shortcuts
       /\ conflicts' = IF res.err THEN conflicts ELSE reg.conflicts
       /\ sysOp' = [op |-> "load", str |-> <<>>, name |-> "", ctx |-> "",
                    err |-> IF res.err THEN "load" ELSE ""]
       /\ hkMsg' = NoMsg
       /\ hkCmd' = NoCmd
       /\ UNCHANGED <<context, nextHandler, parsed>>
       /\ UNCHANGED uiVars

\* ShortcutSystem.SetContext
SystemSetContext(c) ==
    /\ sysOp # NoOp
    /\ context' = c
    /\ sysOp' = [op |-> "context", str |-> <<>>, name |-> "", ctx |-> c, err |-> ""]
    /\ hkMsg' = NoMsg
    /\ hkCmd' = NoCmd
    /\ UNCHANGED <<shortcuts, conflicts, nextHandler, config, parsed>>
    /\ UNCHANGED uiVars

\* the characters of "shift+"
ShiftPlus == <<"s", "h", "i", "f", "t", "+">>

\* registerDefaultShortcuts: the shortcuts it registers, in the order of
\* the five RegisterShortcuts calls, each with the key string it parses
registerDefaultShortcuts ==
    << [Key |-> CtrlPlus \o <<"q">>, Action |-> "quit",
        Description |-> "Quit application", Context |-> ContextGlobal],
       [Key |-> <<"q">>, Action |-> "quit",
        Description |-> "Quit application", Context |-> ContextGlobal],
       [Key |-> CtrlPlus \o <<"h">>, Action |-> "help",
        Description |-> "Show help", Context |-> ContextGlobal],
       [Key |-> <<"f", "1">>, Action |-> "help",
        Description |-> "Show help", Context |-> ContextGlobal],
       [Key |-> <<"e", "s", "c">>, Action |-> "cancel",
        Description |-> "Cancel current operation", Context |-> ContextGlobal],
       [Key |-> CtrlPlus \o <<"r">>, Action |-> "refresh",
        Description |-> "Refresh current view", Context |-> ContextGlobal],
       [Key |-> CtrlPlus \o <<"p">>, Action |-> "view_processes",
        Description |-> "Switch to Processes view", Context |-> ContextGlobal],
       [Key |-> CtrlPlus \o <<"d">>, Action |-> "view_details",
        Description |-> "Switch to Details view", Context |-> ContextGlobal],
       [Key |-> CtrlPlus \o <<"t">>, Action |-> "view_stats",
        Description |-> "Switch to Statistics view", Context |-> ContextGlobal],
       [Key |-> CtrlPlus \o <<",">>, Action |-> "view_settings",
        Description |-> "Switch to Settings view", Context |-> ContextGlobal],
       [Key |-> CtrlPlus \o <<"k">>, Action |-> "kill_process",
        Description |-> "Kill selected process", Context |-> ContextProcesses],
       [Key |-> CtrlPlus \o ShiftPlus \o <<"k">>, Action |-> "force_kill_process",
        Description |-> "Force kill selected process", Context |-> ContextProcesses],
       [Key |-> CtrlPlus \o <<"e">>, Action |-> "export",
        Description |-> "Export process data", Context |-> ContextProcesses],
       [Key |-> CtrlPlus \o <<"b">>, Action |-> "backup",
        Description |-> "Create backup", Context |-> ContextProcesses],
       [Key |-> CtrlPlus \o <<"f">>, Action |-> "search",
        Description |-> "Open search dialog", Context |-> ContextProcesses],
       [Key |-> CtrlPlus \o ShiftPlus \o <<"f">>, Action |-> "advanced_filter",
        Description |-> "Open advanced filter dialog", Context |-> ContextProcesses],
       [Key |-> CtrlPlus \o <<"l">>, Action |-> "clear_filters",
        Description |-> "Clear all filters", Context |-> ContextProcesses],
       [Key |-> CtrlPlus \o <<"o">>, Action |-> "sort_cpu",
        Description |-> "Sort by CPU usage", Context |-> ContextProcesses],
       [Key |-> CtrlPlus \o <<"m">>, Action |-> "sort_memory",
        Description |-> "Sort by memory usage", Context |-> ContextProcesses],
       [Key |-> CtrlPlus \o <<"n">>, Action |-> "sort_name",
        Description |-> "Sort by name", Context |-> ContextProcesses],
       [Key |-> CtrlPlus \o <<"s">>, Action |-> "sort_status",
        Description |-> "Sort by status", Context |-> ContextProcesses] >>

\* the loop of RegisterShortcuts over registerDefaultShortcuts from entry i
\* on; every shortcut has a handler closure of its own
RECURSIVE RegisterDefaultsFrom(_, _)
RegisterDefaultsFrom(reg, i) ==
    IF i > Len(registerDefaultShortcuts) THEN reg
    ELSE LET d == registerDefaultShortcuts[i]
         IN  RegisterDefaultsFrom(
                Register(reg, [Key |-> ParseKey(d.Key), Action |-> d.Action,
                               Description |-> d.Description, Context |-> d.Context,
                               Handler |-> MaxShortcuts + 1 + Len(getDefaultShortcuts) + i,
                               Enabled |-> TRUE]),
                i + 1)

\* NewShortcutManager: the registry of a fresh manager
NewShortcutManager == RegisterDefaultsFrom(NewShortcutRegistry, 1)

\* configurations the system is constructed from before shortcuts are
\* created: no file (the defaults), a file without shortcuts, and a file
\* with one item that has no "key" field
CreateStartConfigs ==
    { DefaultConfig,
      [Shortcuts |-> <<>>, ActivePreset |-> ""],
      [Shortcuts |-> << ConfigItem("global_help", <<>>, "help", "Show help",
                                   "Global", TRUE) >>,
       ActivePreset |-> "custom"] }

\* shortcuts created on a system constructed from one of these
CreateNext ==
    \/ \E c \in CreateStartConfigs : NewShortcutSystem([err |-> FALSE, config |-> c])
    \/ \E keyStr \in CreateKeys, c \in CreateContexts : CreateShortcut(keyStr, c)

SysNext ==
    \/ \E res \in LoadResults : NewShortcutSystem(res)
    \/ \E keyStr \in CreateKeys, c \in CreateContexts : CreateShortcut(keyStr, c)

\* the system reconfigured: shortcuts for one key are created, and presets
\* and stored configurations replace what there is
PresetNext ==
    \/ \E res \in LoadResults : NewShortcutSystem(res)
    \/ \E c \in CreateContexts : CreateShortcut(<<"k">>, c)
    \/ \E presetName \in PresetInputs : ApplyPreset(presetName)
    \/ \E res \in LoadResults : SystemLoadConfig(res)
    \/ \E c \in CreateContexts : SystemSetContext(c)

(***************************************************************************)
(* ExportConfig: the registry written out as a configuration, and the      *)
(* configuration applied again.                                            *)
(***************************************************************************)
\* Modifier.String, as characters
ModifierString(m) ==
    CASE m = ModCtrl -> <<"C", "t", "r", "l">>
      [] m = ModAlt -> <<"A", "l", "t">>
      [] m = ModShift -> <<"S", "h", "i", "f", "t">>
      [] m = ModCtrlShift -> <<"C", "t", "r", "l", "+", "S", "h", "i", "f", "t">>
      [] m = ModCtrlAlt -> <<"C", "t", "r", "l", "+", "A", "l", "t">>
      [] m = ModAltShift -> <<"A", "l", "t", "+", "S", "h", "i", "f", "t">>
      [] m = ModCtrlAltShift ->
           <<"C", "t", "r", "l", "+", "A", "l", "t", "+", "S", "h", "i", "f", "t">>
      [] OTHER -> <<>>

\* the characters of the base keys of the registry's shortcuts
KeyTexts == {<<"k">>, <<"K">>, <<>>}
Chars(str) == CHOOSE cs \in KeyTexts : Str(cs) = str

\* ShortcutKey.String, as characters
KeyString(key) ==
    IF key.Modifier = ModNone THEN Chars(key.Key)
    ELSE ModifierString(key.Modifier) \o <<"+">> \o Chars(key.Key)

\* Context.String
ContextString(c) ==
    CASE c = ContextGlobal -> "Global"
      [] c = ContextProcesses -> "Processes"
      [] c = ContextDetails -> "Details"
      [] OTHER -> "Unknown"

\* the item ExportConfig stores for a shortcut of a context's list, under
\* the name fmt.Sprintf("%s_%s", context.String(), shortcut.Action)
ExportItem(c, sh) ==
    ConfigItem(ContextString(c) \o "_" \o sh.Action, KeyString(sh.Key), sh.Action,
               sh.Description, ContextString(c), sh.Enabled)

\* config.Shortcuts[key] = item in the loop over a list: entry i is still in
\* the map after the loop when no later entry was stored under its name
ExportKept(l, i) == \A j \in (i + 1)..Len(l) : l[j].Action # l[i].Action

\* the items ExportConfig leaves in the map for one context's list
ExportContext(sc, c) ==
    LET l == sc[c]
        Kept(i) == ExportKept(l, i)
        idx == SelectSeq([i \in 1..Len(l) |-> i], Kept)
    IN  [n \in 1..Len(idx) |-> ExportItem(c, l[idx[n]])]

\* ShortcutManager.ExportConfig
ExportConfig(sc) ==
    [Shortcuts |-> ExportContext(sc, ContextGlobal)
                     \o ExportContext(sc, ContextProcesses)
                     \o ExportContext(sc, ContextDetails),
     ActivePreset |-> "custom"]

\* the actions of the shortcuts registered
ExportActions == {"quit", "help"}

\* m.ApplyConfig(m.ExportConfig())
ExportAndApply ==
    \E order \in MapOrders(ExportConfig(shortcuts).Shortcuts) :
       /\ shortcuts' = ApplyConfig(order).shortcuts
       /\ conflicts' = ApplyConfig(order).conflicts
       /\ sysOp' = [op |-> "export", str |-> <<>>, name |-> "", ctx |-> "", err |-> ""]
       /\ hkMsg' = NoMsg
       /\ hkCmd' = NoCmd
       /\ UNCHANGED <<context, nextHandler, config, parsed>>
       /\ UNCHANGED uiVars

\* ShortcutSystem.RegisterShortcut
SystemRegisterShortcut(s) ==
    LET reg == Register([shortcuts |-> shortcuts, conflicts |-> conflicts], s)
    IN  /\ nextHandler <= MaxShortcuts
        /\ shortcuts' = reg.shortcuts
        /\ conflicts' = reg.conflicts
        /\ nextHandler' = nextHandler + 1
        /\ sysOp' = [op |-> "register", str |-> <<>>, name |-> "", ctx |-> s.Context,
                     err |-> ""]
        /\ hkMsg' = NoMsg
        /\ hkCmd' = NoCmd
        /\ UNCHANGED <<context, config, parsed>>
        /\ UNCHANGED uiVars

\* ShortcutSystem.EnableShortcut (b true) and ShortcutSystem.DisableShortcut
\* (b false), which call the manager's
SystemSetEnabled(key, c, b) ==
    /\ shortcuts' = [shortcuts EXCEPT ![c] = SetFirstEnabled(@, key, b)]
    /\ sysOp' = [op |-> IF b THEN "enable" ELSE "disable", str |-> KeyString(key),
                 name |-> "", ctx |-> c, err |-> ""]
    /\ hkMsg' = NoMsg
    /\ hkCmd' = NoCmd
    /\ UNCHANGED <<conflicts, context, nextHandler, config, parsed>>
    /\ UNCHANGED uiVars

\* DisableShortcut(key, c) followed by EnableShortcut(key, c)
DisableThenEnable(key, c) ==
    /\ shortcuts' = [shortcuts EXCEPT ![c] =
                        SetFirstEnabled(SetFirstEnabled(@, key, FALSE), key, TRUE)]
    /\ sysOp' = [op |-> "disable-enable", str |-> KeyString(key), name |-> "",
                 ctx |-> c, err |-> ""]
    /\ hkMsg' = NoMsg
    /\ hkCmd' = NoCmd
    /\ UNCHANGED <<conflicts, context, nextHandler, config, parsed>>
    /\ UNCHANGED uiVars

ToggleNext ==
    \/ \E key \in RegKeys, c \in CreateContexts, e \in BOOLEAN :
          SystemRegisterShortcut(
             [Key |-> key, Action |-> "act", Description |-> "desc",
              Context |-> c, Handler |-> nextHandler, Enabled |-> e])
    \/ \E key \in RegKeys, c \in CreateContexts, b \in BOOLEAN :
          SystemSetEnabled(key, c, b)
    \/ \E key \in RegKeys, c \in CreateContexts : DisableThenEnable(key, c)

ExportNext ==
    \/ \E key \in RegKeys, a \in ExportActions, c \in CreateContexts, e \in BOOLEAN :
          SystemRegisterShortcut(
             [Key |-> key, Action |-> a, Description |-> "desc",
              Context |-> c, Handler |-> nextHandler, Enabled |-> e])
    \/ ExportAndApply

(***************************************************************************)
(* Maintenance of the registry through the ShortcutSystem: conflicts       *)
(* resolved, shortcuts deleted, updated and listed.                        *)
(***************************************************************************)
\* the loop of ResolveConflict over the bucket l from entry i on: every
\* shortcut of another context than keepContext has DisableShortcut called
\* with its key and its context
RECURSIVE ResolveFrom(_, _, _, _)
ResolveFrom(sc, l, keepContext, i) ==
    IF i > Len(l) THEN sc
    ELSE ResolveFrom(IF l[i].Context # keepContext
                     THEN [sc EXCEPT ![l[i].Context] =
                              SetFirstEnabled(@, l[i].Key, FALSE)]
                     ELSE sc,
                     l, keepContext, i + 1)

\* ShortcutSystem.ResolveConflict: the lists of the contexts afterwards
ResolveConflict(sc, cf, key, keepContext) ==
    IF key \in DOMAIN GetConflicts(cf)
    THEN ResolveFrom(sc, GetConflicts(cf)[key], keepContext, 1)
    ELSE sc

\* a call of ShortcutSystem.ResolveConflict
SystemResolveConflict(key, keepContext) ==
    /\ shortcuts' = ResolveConflict(shortcuts, conflicts, key, keepContext)
    /\ sysOp' = [op |-> "resolve", str |-> KeyString(key), name |-> "",
                 ctx |-> keepContext, err |-> ""]
    /\ hkMsg' = NoMsg
    /\ hkCmd' = NoCmd
    /\ UNCHANGED <<conflicts, context, nextHandler, config, parsed>>
    /\ UNCHANGED uiVars

\* ShortcutSystem.DeleteShortcut: DisableShortcut, and nil returned
SystemDeleteShortcut(key, c) ==
    /\ shortcuts' = [shortcuts EXCEPT ![c] = SetFirstEnabled(@, key, FALSE)]
    /\ sysOp' = [op |-> "delete", str |-> KeyString(key), name |-> "",
                 ctx |-> c, err |-> ""]
    /\ hkMsg' = NoMsg
    /\ hkCmd' = NoCmd
    /\ UNCHANGED <<conflicts, context, nextHandler, config, parsed>>
    /\ UNCHANGED uiVars

\* the bytes of the characters of the model's key strings
CharCode(c) ==
    CASE c = "+" -> 43 [] c = "A" -> 65 [] c = "C" -> 67 [] c = "K" -> 75
      [] c = "S" -> 83 [] c = "f" -> 102 [] c = "h" -> 104 [] c = "i" -> 105
      [] c = "k" -> 107 [] c = "l" -> 108 [] c = "r" -> 114 [] c = "t" -> 116

\* Go's < on strings, on character sequences
RECURSIVE StringLess(_, _)
StringLess(a, b) ==
    IF b = <<>> THEN FALSE
    ELSE IF a = <<>> THEN TRUE
    ELSE IF a[1] # b[1] THEN CharCode(a[1]) < CharCode(b[1])
    ELSE StringLess(Tail(a), Tail(b))

\* the less function GetShortcutsForContext hands to sort.Slice
KeyLess(x, y) == StringLess(KeyString(x.Key), KeyString(y.Key))

\* sort.Slice on a slice of fewer than 12 elements is an insertion sort: an
\* element moves left past the elements it is less than
RECURSIVE InsertByKey(_, _)
InsertByKey(sorted, x) ==
    IF sorted = <<>> THEN <<x>>
    ELSE IF KeyLess(x, sorted[Len(sorted)])
         THEN Append(InsertByKey(SubSeq(sorted, 1, Len(sorted) - 1), x),
                     sorted[Len(sorted)])
         ELSE Append(sorted, x)

RECURSIVE SortSlice(_, _)
SortSlice(l, n) ==
    IF n = 0 THEN <<>> ELSE InsertByKey(SortSlice(l, n - 1), l[n])

\* the list of the registry after ShortcutManager.GetShortcutsForContext:
\* the slice sorted shares its array with the registry's
ListAfterGet(l) == SortSlice(l, Len(l))

\* a call of ShortcutSystem.GetShortcutsForContext
SystemGetShortcutsForContext(c) ==
    /\ shortcuts' = [shortcuts EXCEPT ![c] = ListAfterGet(@)]
    /\ sysOp' = [op |-> "list", str |-> <<>>, name |-> "", ctx |-> c, err |-> ""]
    /\ hkMsg' = NoMsg
    /\ hkCmd' = NoCmd
    /\ UNCHANGED <<conflicts, context, nextHandler, config, parsed>>
    /\ UNCHANGED uiVars

\* the updates handed to UpdateShortcut: one that names a new action and
\* enables, one that has the zero value in every field (Enabled false)
Updates ==
    { [Action |-> "upd", Description |-> "", Handler |-> NoCmd, Enabled |-> TRUE],
      [Action |-> "", Description |-> "", Handler |-> NoCmd, Enabled |-> FALSE] }

\* the loop of UpdateShortcut on the slice GetShortcutsForContext returned
UpdateFirst(l, key, updates) ==
    LET i == ScanKey(l, key, 1)
    IN  IF i = 0 THEN l
        ELSE [l EXCEPT ![i] =
                 [Key |-> @.Key,
                  Action |-> IF updates.Action # "" THEN updates.Action ELSE @.Action,
                  Description |-> IF updates.Description # ""
                                  THEN updates.Description ELSE @.Description,
                  Context |-> @.Context,
                  Handler |-> IF updates.Handler # NoCmd
                              THEN updates.Handler ELSE @.Handler,
                  Enabled |-> updates.Enabled]]

\* ShortcutSystem.UpdateShortcut
SystemUpdateShortcut(key, c, updates) ==
    /\ shortcuts' = [shortcuts EXCEPT ![c] = UpdateFirst(ListAfterGet(@), key, updates)]
    /\ sysOp' = [op |-> "update", str |-> KeyString(key), name |-> updates.Action,
                 ctx |-> c,
                 err |-> IF ScanKey(shortcuts[c], key, 1) = 0 THEN "not found" ELSE ""]
    /\ hkMsg' = NoMsg
    /\ hkCmd' = NoCmd
    /\ UNCHANGED <<conflicts, context, nextHandler, config, parsed>>
    /\ UNCHANGED uiVars

MaintainNext ==
    \/ \E key \in RegKeys, c \in CreateContexts, e \in BOOLEAN :
          SystemRegisterShortcut(
             [Key |-> key, Action |-> "act", Description |-> "desc",
              Context |-> c, Handler |-> nextHandler, Enabled |-> e])
    \/ \E key \in RegKeys, c \in CreateContexts, b \in BOOLEAN :
          SystemSetEnabled(key, c, b)
    \/ \E key \in RegKeys, c \in CreateContexts : SystemResolveConflict(key, c)
    \/ \E key \in RegKeys, c \in CreateContexts : SystemDeleteShortcut(key, c)

\* the registry listed and updated through the ShortcutSystem
UpdateNext ==
    \/ \E key \in RegKeys, c \in CreateContexts, e \in BOOLEAN :
          SystemRegisterShortcut(
             [Key |-> key, Action |-> "act", Description |-> "desc",
              Context |-> c, Handler |-> nextHandler, Enabled |-> e])
    \/ \E key \in RegKeys, c \in CreateContexts, b \in BOOLEAN :
          SystemSetEnabled(key, c, b)
    \/ \E c \in CreateContexts : SystemGetShortcutsForContext(c)
    \/ \E key \in RegKeys, c \in CreateContexts, u \in Updates :
          SystemUpdateShortcut(key, c, u)

(***************************************************************************)
(* ParseKey, applied to key strings written as modifier tokens and a base  *)
(* key joined by "+".                                                      *)
(***************************************************************************)
\* spellings of the modifier tokens, each with the modifier it names
ModifierSpellings ==
    { [name |-> "ctrl", text |-> <<"c", "t", "r", "l">>],
      [name |-> "ctrl", text |-> <<"C", "T", "R", "L">>],
      [name |-> "alt", text |-> <<"a", "l", "t">>],
      [name |-> "alt", text |-> <<"A", "l", "t">>],
      [name |-> "shift", text |-> <<"s", "h", "i", "f", "t">>] }

\* the base keys
BaseKeys == {<<"k">>, <<"K">>}

\* the sequences of at most three tokens that name different modifiers
TokenSeqs ==
    {<<>>} \cup { <<a>> : a \in ModifierSpellings }
      \cup { p \in ModifierSpellings \X ModifierSpellings :
                p[1].name # p[2].name }
      \cup { p \in ModifierSpellings \X ModifierSpellings \X ModifierSpellings :
                p[1].name # p[2].name /\ p[1].name # p[3].name
                   /\ p[2].name # p[3].name }

\* the key string of the tokens and the base key
RECURSIVE JoinKey(_, _)
JoinKey(toks, base) ==
    IF toks = <<>> THEN base
    ELSE toks[1].text \o <<"+">> \o JoinKey(Tail(toks), base)

\* a call of ParseKey, recorded with the call before it
DoParseKey(toks, base) ==
    /\ parsed' = <<[toks |-> toks, base |-> base, str |-> JoinKey(toks, base),
                    key |-> ParseKey(JoinKey(toks, base))]>>
                   \o (IF parsed = <<>> THEN <<>> ELSE <<parsed[1]>>)
    /\ UNCHANGED <<shortcuts, conflicts, context, nextHandler, hkMsg, hkCmd,
                   config, sysOp>>
    /\ UNCHANGED uiVars

ParseNext == \E toks \in TokenSeqs, base \in BaseKeys : DoParseKey(toks, base)

\* ParseKey(k.String()) for the key k of the call before, as ApplyConfig
\* makes it on a key string ExportConfig wrote
DoParseKeyString ==
    /\ parsed # <<>>
    /\ DoParseKey(<<>>, KeyString(parsed[1].key))

\* the base keys of the key strings written again: a letter and none
RoundTripBases == {<<"K">>, <<>>}

\* key strings parsed, with and without a base key, and their keys written
\* and parsed again
RoundTripNext ==
    \/ \E toks \in TokenSeqs, base \in RoundTripBases : DoParseKey(toks, base)
    \/ DoParseKeyString

(***************************************************************************)
(* Key events against shortcuts registered from key strings: the keys of   *)
(* the registry come from ParseKey, those looked up from the event.        *)
(***************************************************************************)
\* the key events for the key "k" with every combination of the flags
FlagMsgs ==
    { [Str |-> "k", Ctrl |-> c, Alt |-> a, Shift |-> s] :
         c \in BOOLEAN, a \in BOOLEAN, s \in BOOLEAN }

\* the contexts the shortcuts are registered in and the manager is set to
ResolveContexts == {ContextGlobal, ContextProcesses}

\* Shortcut{Key: ParseKey(keyStr), ...} handed to RegisterShortcut, as
\* ApplyConfig and CreateShortcut do
RegisterParsed(toks, c) ==
    RegisterShortcut([Key |-> ParseKey(JoinKey(toks, <<"k">>)), Action |-> "act",
                      Description |-> "desc", Context |-> c,
                      Handler |-> nextHandler, Enabled |-> TRUE])

ResolveNext ==
    \/ \E toks \in TokenSeqs, c \in ResolveContexts : RegisterParsed(toks, c)
    \/ \E c \in ResolveContexts : SetContext(c)
    \/ \E msg \in FlagMsgs : DoHandleKey(msg)


(***************************************************************************)
(*        PART II: internal/ui/models and internal/services                *)
(***************************************************************************)
\* ViewType (MainModel)
ViewProcesses == "ViewProcesses"
ViewDetails == "ViewDetails"
ViewStats == "ViewStats"
ViewSettings == "ViewSettings"
ViewHelp == "ViewHelp"
Views == {ViewProcesses, ViewDetails, ViewStats, ViewSettings, ViewHelp}

(***************************************************************************)
(* The operating system's processes: ProcessInfo records by PID.  Status,  *)
(* NumThreads and Nice are the same for all of them.                       *)
(***************************************************************************)
ProcTable ==
    <<[PID |-> 1, Name |-> "launchd", Username |-> "root", CPU |-> 0, Memory |-> 0,
       Status |-> "S", NumThreads |-> 1, Nice |-> 0, Command |-> "launchd"],
      [PID |-> 2, Name |-> "bash", Username |-> "alice", CPU |-> 0, Memory |-> 0,
       Status |-> "S", NumThreads |-> 1, Nice |-> 0, Command |-> "bash"],
      [PID |-> 3, Name |-> "chrome", Username |-> "alice", CPU |-> 5, Memory |-> 1,
       Status |-> "S", NumThreads |-> 1, Nice |-> 0, Command |-> "chrome"]>>
PIDs == DOMAIN ProcTable

\* the order of Go's < on the strings of ProcTable
StrRank(str) ==
    CASE str = "alice" -> 1
      [] str = "bash" -> 2
      [] str = "chrome" -> 3
      [] str = "launchd" -> 4
      [] str = "root" -> 5
      [] str = "S" -> 0
      [] OTHER -> 0

\* strings.Contains(strings.ToLower(s), strings.ToLower(t)) on the strings of
\* ProcTable and the search terms of showSearchDialog: each term is contained
\* in a string only when equal to it, the empty term in all
Contains(str, t) == t = "" \/ str = t

\* ProcessService.isSystemProcess
SystemNames == {"kernel_task", "launchd", "kextd", "mds", "WindowServer", "com.apple"}
SystemUsers == {"root", "daemon", "nobody", "system"}
isSystemProcess(pid) ==
    \/ ProcTable[pid].Name \in SystemNames
    \/ ProcTable[pid].Username \in SystemUsers

\* &models.ProcessFilter{} : the zero value
ZeroFilter ==
    [SearchTerm |-> "", MinCPU |-> 0, MaxCPU |-> 0, MinMemory |-> 0,
     MaxMemory |-> 0, Status |-> "", Username |-> "", ShowSystem |-> FALSE]

\* &models.ProcessSort{Field: "cpu", Order: "desc"}
DefaultSort == [Field |-> "cpu", Order |-> "desc"]

\* one iteration of the loop of FilterProcesses: is the process kept
FilterKeeps(pid, f) ==
    LET proc == ProcTable[pid]
    IN  /\ (f.SearchTerm # "" =>
              \/ Contains(proc.Name, f.SearchTerm)
              \/ Contains(proc.Command, f.SearchTerm)
              \/ Contains(proc.Username, f.SearchTerm))
        /\ ~(proc.CPU < f.MinCPU \/ proc.CPU > f.MaxCPU)
        /\ ~(proc.Memory < f.MinMemory \/ proc.Memory > f.MaxMemory)
        /\ ~(f.Status # "" /\ proc.Status # f.Status)
        /\ ~(f.Username # "" /\ proc.Username # f.Username)
        /\ ~(~f.ShowSystem /\ isSystemProcess(pid))

\* ProcessService.FilterProcesses
FilterProcesses(list, f) ==
    LET Keep(pid) == FilterKeeps(pid, f)
    IN  SelectSeq(list, Keep)

\* the value SortProcesses compares for a field; NoRank for a field it has no
\* case for
NoRank == 0 - 1
SortRank(field, pid) ==
    CASE field = "cpu" -> ProcTable[pid].CPU
      [] field = "memory" -> ProcTable[pid].Memory
      [] field = "pid" -> ProcTable[pid].PID
      [] field = "name" -> StrRank(ProcTable[pid].Name)
      [] field = "status" -> StrRank(ProcTable[pid].Status)
      [] field = "threads" -> ProcTable[pid].NumThreads
      [] field = "nice" -> ProcTable[pid].Nice
      [] field = "user" -> StrRank(ProcTable[pid].Username)
      [] OTHER -> NoRank

\* the less function SortProcesses hands to sort.Slice
SortLess(a, b, srt) ==
    IF srt.Order = "asc"
    THEN SortRank(srt.Field, a) < SortRank(srt.Field, b)
    ELSE SortRank(srt.Field, a) > SortRank(srt.Field, b)

\* sort.Slice on fewer than 12 elements is an insertion sort: each element
\* moves left while it is less than its left neighbour
RECURSIVE InsertLeft(_, _, _)
InsertLeft(sorted, x, srt) ==
    IF sorted = <<>> THEN <<x>>
    ELSE IF SortLess(x, sorted[Len(sorted)], srt)
         THEN Append(InsertLeft(SubSeq(sorted, 1, Len(sorted) - 1), x, srt),
                     sorted[Len(sorted)])
         ELSE Append(sorted, x)

RECURSIVE InsertionSort(_, _, _)
InsertionSort(list, n, srt) ==
    IF n = 0 THEN <<>>
    ELSE InsertLeft(InsertionSort(list, n - 1, srt), list[n], srt)

\* ProcessService.SortProcesses
SortProcesses(list, srt) ==
    IF SortRank(srt.Field, 1) = NoRank THEN list
    ELSE InsertionSort(list, Len(list), srt)

\* process.Processes(): the live PIDs in ascending order
RECURSIVE Ascending(_)
Ascending(S) ==
    IF S = {} THEN <<>>
    ELSE LET lo == CHOOSE x \in S : \A y \in S : x <= y
         IN  <<lo>> \o Ascending(S \ {lo})

\* ProcessService.GetProcesses when process.Processes() succeeds
GetProcesses(alive) ==
    LET list == Ascending(alive)
    IN  InsertionSort(list, Len(list), DefaultSort)

(***************************************************************************)
(* Commands and messages.  A tea.Cmd runs in its own goroutine and sends   *)
(* the message it returns to the event loop, which hands the messages one  *)
(* at a time to MainModel.Update.  An item of `pending` is a command that  *)
(* has not run yet (refreshCmd, killCmd, filterDlg, searchDlg) or a        *)
(* message not handled yet.  Field o is the view whose method built the    *)
(* command.                                                                *)
(***************************************************************************)
NoSort == [Field |-> "", Order |-> ""]
\* a command's reference to the ProcessSort object the model still points to
SortCur == [Field |-> "*", Order |-> "*"]
NoSize == <<0, 0>>

Item(t, o, key, pid, fid, srt, procs, view, ok, size) ==
    [t |-> t, o |-> o, key |-> key, pid |-> pid, fid |-> fid, srt |-> srt,
     procs |-> procs, view |-> view, ok |-> ok, size |-> size]
Plain(t) == Item(t, "", "", 0, 0, NoSort, <<>>, "", FALSE, NoSize)

KeyMsg(k) == [Plain("key") EXCEPT !.key = k]
WindowSizeMsg(sz) == [Plain("resize") EXCEPT !.size = sz]
\* ProcessesModel.refreshProcesses: the closure holds m.filter and m.sort
RefreshCmdP(fid) ==
    [Plain("refreshCmd") EXCEPT !.o = ViewProcesses, !.fid = fid, !.srt = SortCur]
\* DetailsModel.refreshProcesses, StatsModel.refreshProcesses
RefreshCmd(o) == [Plain("refreshCmd") EXCEPT !.o = o]
refreshProcessesMsg(o, procs) == [Plain("refreshMsg") EXCEPT !.o = o, !.procs = procs]
\* startRefreshTimer: the command sleeps and returns refreshTimerMsg{}
refreshTimerMsg == Plain("timer")
KillCmd(o, pid) == [Plain("killCmd") EXCEPT !.o = o, !.pid = pid]
killProcessMsg(o, pid, ok) == [Plain("killMsg") EXCEPT !.o = o, !.pid = pid, !.ok = ok]
FilterDlgCmd(fid) == [Plain("filterDlg") EXCEPT !.o = ViewProcesses, !.fid = fid]
SearchDlgCmd(fid) == [Plain("searchDlg") EXCEPT !.o = ViewProcesses, !.fid = fid]
SwitchViewMsg(o, view) == [Plain("switchView") EXCEPT !.o = o, !.view = view]
LoadConfigCmd == [Plain("loadConfig") EXCEPT !.o = ViewSettings]
loadConfigMsg(ok) == [Plain("loadConfig") EXCEPT !.o = ViewSettings, !.ok = ok]
QuitMsg == Plain("quit")
\* searchProcessMsg, exportStatsMsg: messages of other types
OtherMsg(o, what) == [Plain("other") EXCEPT !.o = o, !.key = what]
NoItem == Plain("")

CommandTypes == {"refreshCmd", "killCmd", "filterDlg", "searchDlg"}

Issue(pend, item) == pend (+) SetToBag({item})
Take(pend, item) == pend (-) SetToBag({item})

RECURSIVE SumCopies(_, _)
SumCopies(S, B) ==
    IF S = {} THEN 0
    ELSE LET x == CHOOSE y \in S : TRUE
         IN  B[x] + SumCopies(S \ {x}, B)

\* m.sort = &models.ProcessSort{...}: the commands that hold the old object
\* keep it, with the value it has now and will keep
FreezeItem(item, srt) == IF item.srt = SortCur THEN [item EXCEPT !.srt = srt] ELSE item
FreezeSort(pend, srt) ==
    LET D == BagToSet(pend)
        R == { FreezeItem(x, srt) : x \in D }
    IN  [y \in R |-> SumCopies({x \in D : FreezeItem(x, srt) = y}, pend)]

\* the ProcessFilter objects still referenced: by the model or by a command
LiveFilters(cur, pend) == ({cur} \cup { x.fid : x \in BagToSet(pend) }) \ {0}
FilterIds == 1..MaxFilterObjs
\* objects no longer referenced are forgotten
Collect(flt, cur, pend) ==
    [i \in FilterIds |-> IF i \in LiveFilters(cur, pend) THEN flt[i] ELSE ZeroFilter]

(***************************************************************************)
(* The view models.  Each Update is an operator from the model (and what   *)
(* it reaches through its pointers: the filter objects, the commands that  *)
(* share its sort object) and a message to the model returned and the      *)
(* commands issued, the latter added to the bag pend.                      *)
(***************************************************************************)
\* a mutant: the refresh handler does not bring the index back in bounds
ClampIndex_None(sel, n) == sel

\* "Keep selected index within bounds" of the refreshProcessesMsg case
ClampIndex(sel, n) ==
    LET a == IF sel >= n THEN n - 1 ELSE sel
    IN  IF a < 0 THEN 0 ELSE a

\* a mutant: the order is descending whatever the field in effect
sortByField_NoFlip(srt, field) == [Field |-> field, Order |-> "desc"]

\* ProcessesModel.sortByField
sortByField(srt, field) ==
    IF srt.Field = field
    THEN [srt EXCEPT !.Order = IF srt.Order = "asc" THEN "desc" ELSE "asc"]
    ELSE [Field |-> field, Order |-> "desc"]

\* the sort keys of ProcessesModel.Update and the field each passes
SortKeyField(k) ==
    CASE k = "o" -> "cpu"
      [] k = "m" -> "memory"
      [] k = "ctrl+p" -> "pid"
      [] k = "n" -> "name"
      [] k = "t" -> "status"
      [] k = "u" -> "user"
      [] k = "ctrl+t" -> "threads"
      [] k = "ctrl+n" -> "nice"
      [] OTHER -> ""

\* NewProcessesModel
NewProcessesModel ==
    [processes |-> <<>>, filter |-> 1, sort |-> DefaultSort, selectedIndex |-> 0,
     showSystem |-> FALSE, refreshing |-> FALSE, width |-> 0, height |-> 0]

\* ProcessesModel.Init
ProcessesInit(m, pend) == Issue(Issue(pend, RefreshCmdP(m.filter)), refreshTimerMsg)

\* a ProcessFilter object that neither the model nor a command references
FreeFilters(m, pend) == FilterIds \ LiveFilters(m.filter, pend)

\* ProcessesModel.Update, the tea.KeyMsg case
ProcessesKey(m, flt, pend, k) ==
    LET same == [m |-> m, flt |-> flt, pend |-> pend, blocked |-> FALSE]
        n == Len(m.processes)
        refresh == Issue(pend, RefreshCmdP(m.filter))
    IN  CASE k \in {"up", "k"} ->
               IF m.selectedIndex > 0
               THEN [same EXCEPT !.m.selectedIndex = @ - 1] ELSE same
          [] k \in {"down", "j"} ->
               IF m.selectedIndex < n - 1
               THEN [same EXCEPT !.m.selectedIndex = @ + 1] ELSE same
          [] k = "r" -> [same EXCEPT !.pend = refresh]
          [] k = "ctrl+k" ->
               IF n > 0 /\ m.selectedIndex < n
               THEN [same EXCEPT !.pend =
                       Issue(pend, KillCmd(ViewProcesses, m.processes[m.selectedIndex + 1]))]
               ELSE same
          [] k = "f" -> [same EXCEPT !.pend = Issue(pend, FilterDlgCmd(m.filter))]
          [] k = "ctrl+f" -> [same EXCEPT !.pend = Issue(pend, SearchDlgCmd(m.filter))]
          [] k = "s" ->
               [same EXCEPT !.m.showSystem = ~m.showSystem,
                            !.flt[m.filter].ShowSystem = ~m.showSystem,
                            !.pend = refresh]
          [] SortKeyField(k) # "" ->
               [same EXCEPT !.m.sort = sortByField(m.sort, SortKeyField(k)),
                            !.pend = refresh]
          [] k = "ctrl+r" ->
               IF FreeFilters(m, pend) = {}
               THEN [same EXCEPT !.blocked = TRUE]
               ELSE LET new == CHOOSE f \in FreeFilters(m, pend) :
                                  \A g \in FreeFilters(m, pend) : f <= g
                    IN  [same EXCEPT !.m.filter = new,
                                     !.flt[new] = ZeroFilter,
                                     !.m.sort = DefaultSort,
                                     !.pend = Issue(FreezeSort(pend, m.sort),
                                                    RefreshCmdP(new))]
          [] k = "ctrl+shift+f" ->
               [same EXCEPT !.flt[m.filter].SearchTerm = "", !.pend = refresh]
          [] k = "ctrl+shift+s" ->
               [same EXCEPT !.m.sort = DefaultSort,
                            !.pend = Issue(FreezeSort(pend, m.sort),
                                           RefreshCmdP(m.filter))]
          [] k = "enter" ->
               IF n > 0 /\ m.selectedIndex < n
               THEN [same EXCEPT !.pend =
                       Issue(pend, SwitchViewMsg(ViewProcesses, ViewDetails))]
               ELSE same
          [] OTHER -> same

\* ProcessesModel.Update
ProcessesUpdate(m, flt, pend, msg) ==
    LET same == [m |-> m, flt |-> flt, pend |-> pend, blocked |-> FALSE]
    IN  CASE msg.t = "key" -> ProcessesKey(m, flt, pend, msg.key)
          [] msg.t = "refreshMsg" ->
               [same EXCEPT !.m.processes = msg.procs,
                            !.m.refreshing = FALSE,
                            !.m.selectedIndex = ClampIndex(m.selectedIndex, Len(msg.procs))]
          [] msg.t = "timer" -> [same EXCEPT !.pend = Issue(pend, RefreshCmdP(m.filter))]
          [] OTHER -> same

\* ProcessesModel.UpdateSize (and that of the other models)
UpdateSize(m, size) == [m EXCEPT !.width = size[1], !.height = size[2]]

\* NewDetailsModel
NewDetailsModel ==
    [processes |-> <<>>, selectedIndex |-> 0, refreshing |-> FALSE,
     width |-> 0, height |-> 0]

\* DetailsModel.Init
DetailsInit(pend) == Issue(Issue(pend, RefreshCmd(ViewDetails)), refreshTimerMsg)

\* a mutant: a successful kill always selects the next index
KillSuccessIndex_Next(sel, n) == sel + 1

\* the killProcessMsg case of DetailsModel.Update, msg.Success
KillSuccessIndex(sel, n) ==
    IF sel < n - 1 THEN sel + 1
    ELSE IF sel > 0 THEN sel - 1
    ELSE sel

\* a mutant: a failed kill is attempted again
KillFailure_Retry(r, msg) ==
    [r EXCEPT !.pend = Issue(r.pend, KillCmd(msg.o, msg.pid))]

\* the killProcessMsg case of DetailsModel.Update when msg.Success is false:
\* the if has no else, msg.Error is not read
KillFailure(r, msg) == r

\* DetailsModel.Update
DetailsUpdate(m, pend, msg) ==
    LET same == [m |-> m, pend |-> pend]
        n == Len(m.processes)
        k == msg.key
    IN  CASE msg.t = "key" /\ k \in {"up", "k"} ->
               IF m.selectedIndex > 0
               THEN [same EXCEPT !.m.selectedIndex = @ - 1] ELSE same
          [] msg.t = "key" /\ k \in {"down", "j"} ->
               IF m.selectedIndex < n - 1
               THEN [same EXCEPT !.m.selectedIndex = @ + 1] ELSE same
          [] msg.t = "key" /\ k = "r" ->
               [same EXCEPT !.pend = Issue(pend, RefreshCmd(ViewDetails))]
          [] msg.t = "key" /\ k = "ctrl+k" ->
               IF n > 0 /\ m.selectedIndex < n
               THEN [same EXCEPT !.pend =
                       Issue(pend, KillCmd(ViewDetails, m.processes[m.selectedIndex + 1]))]
               ELSE same
          [] msg.t = "key" /\ k = "f" ->
               [same EXCEPT !.pend = Issue(pend, OtherMsg(ViewDetails, "search"))]
          [] msg.t = "key" /\ k = "esc" ->
               [same EXCEPT !.pend = Issue(pend, SwitchViewMsg(ViewDetails, ViewProcesses))]
          [] msg.t = "refreshMsg" ->
               [same EXCEPT !.m.processes = msg.procs,
                            !.m.refreshing = FALSE,
                            !.m.selectedIndex = ClampIndex(m.selectedIndex, Len(msg.procs))]
          [] msg.t = "timer" ->
               [same EXCEPT !.pend = Issue(pend, RefreshCmd(ViewDetails))]
          [] msg.t = "killMsg" ->
               IF msg.ok
               THEN [same EXCEPT !.m.selectedIndex = KillSuccessIndex(m.selectedIndex, n)]
               ELSE KillFailure(same, msg)
          [] OTHER -> same

\* NewStatsModel
NewStatsModel == [processes |-> <<>>, refreshing |-> FALSE, width |-> 0, height |-> 0]

\* StatsModel.Init
StatsInit(pend) == Issue(Issue(pend, RefreshCmd(ViewStats)), refreshTimerMsg)

\* StatsModel.Update
StatsUpdate(m, pend, msg) ==
    LET same == [m |-> m, pend |-> pend]
        k == msg.key
    IN  CASE msg.t = "key" /\ k = "r" ->
               [same EXCEPT !.pend = Issue(pend, RefreshCmd(ViewStats))]
          [] msg.t = "key" /\ k = "e" ->
               [same EXCEPT !.pend = Issue(pend, OtherMsg(ViewStats, "export"))]
          [] msg.t = "key" /\ k = "esc" ->
               [same EXCEPT !.pend = Issue(pend, SwitchViewMsg(ViewStats, ViewProcesses))]
          [] msg.t = "refreshMsg" ->
               [same EXCEPT !.m.processes = msg.procs, !.m.refreshing = FALSE]
          [] msg.t = "timer" ->
               [same EXCEPT !.pend = Issue(pend, RefreshCmd(ViewStats))]
          [] msg.t = "other" /\ k = "export" ->
               \* tea.Printf
               [same EXCEPT !.pend = Issue(pend, OtherMsg(ViewStats, "printf"))]
          [] OTHER -> same

\* NewSettingsModel: config is NewAppConfig() until a stored one is loaded
NewSettingsModel == [config |-> "default", width |-> 0, height |-> 0]

\* SettingsModel.Init
SettingsInit(pend) == Issue(pend, LoadConfigCmd)

\* SettingsModel.Update
SettingsUpdate(m, pend, msg) ==
    LET same == [m |-> m, pend |-> pend]
    IN  CASE msg.t = "key" /\ msg.key = "esc" ->
               [same EXCEPT !.pend = Issue(pend, SwitchViewMsg(ViewSettings, ViewProcesses))]
          [] msg.t = "loadConfig" ->
               IF msg.ok THEN [same EXCEPT !.m.config = "stored"] ELSE same
          [] OTHER -> same

\* NewHelpModel
NewHelpModel == [width |-> 0, height |-> 0]

\* HelpModel.Init returns nil
HelpInit(pend) == pend

\* HelpModel.Update
HelpUpdate(m, pend, msg) ==
    LET same == [m |-> m, pend |-> pend]
    IN  CASE msg.t = "key" /\ msg.key = "esc" ->
               [same EXCEPT !.pend = Issue(pend, SwitchViewMsg(ViewHelp, ViewProcesses))]
          [] OTHER -> same

(***************************************************************************)
(* MainModel.  A state of the application is a record st of MainModel's    *)
(* fields, the objects they point to and the bag of commands and messages. *)
(***************************************************************************)
State ==
    [currentView |-> currentView, quitting |-> quitting, mainSize |-> mainSize,
     processes |-> processes, details |-> details, stats |-> stats,
     settings |-> settings, help |-> help, filters |-> filters,
     pending |-> pending, blocked |-> FALSE]

\* the Init of a view model, called by MainModel
ViewInit(st, view) ==
    CASE view = ViewProcesses -> ProcessesInit(st.processes, st.pending)
      [] view = ViewDetails -> DetailsInit(st.pending)
      [] view = ViewStats -> StatsInit(st.pending)
      [] view = ViewSettings -> SettingsInit(st.pending)
      [] view = ViewHelp -> HelpInit(st.pending)
      [] OTHER -> st.pending

\* a mutant: a switch to the view already shown issues no Init
SwitchTo_NoReinit(st, view) ==
    IF st.currentView = view THEN st
    ELSE [st EXCEPT !.currentView = view, !.pending = ViewInit(st, view)]

\* m.currentView = view; cmd = m.<view>.Init(); cmds = append(cmds, cmd)
SwitchTo(st, view) ==
    [st EXCEPT !.currentView = view, !.pending = ViewInit(st, view)]

\* the keys of the first case of MainModel.Update's key switch
QuitKeys == {"ctrl+c", "q", "Q", "ctrl+q", "alt+f4", "cmd+q", "ctrl+d"}

\* the view-switching keys of MainModel.Update and their views
ModeKeyTarget(k) ==
    CASE k \in {"p", "P"} -> ViewProcesses
      [] k \in {"d", "D"} -> ViewDetails
      [] k = "ctrl+s" -> ViewStats
      [] k \in {"h", "H"} -> ViewHelp
      [] k \in {"e", "E"} -> ViewSettings
      [] OTHER -> ""

\* a mutant: escape re-enters the processes view from every view
EscSwitches_Always(cur) == TRUE

\* the condition of the "esc" and "cmd+w" cases
EscSwitches(cur) == cur # ViewProcesses

\* a mutant: only the view shown is told the new size
ResizeAll_ShownOnly(st, size) ==
    CASE st.currentView = ViewProcesses ->
           [st EXCEPT !.mainSize = size, !.processes = UpdateSize(@, size)]
      [] st.currentView = ViewDetails ->
           [st EXCEPT !.mainSize = size, !.details = UpdateSize(@, size)]
      [] st.currentView = ViewStats ->
           [st EXCEPT !.mainSize = size, !.stats = UpdateSize(@, size)]
      [] st.currentView = ViewSettings ->
           [st EXCEPT !.mainSize = size, !.settings = UpdateSize(@, size)]
      [] OTHER -> [st EXCEPT !.mainSize = size, !.help = UpdateSize(@, size)]

\* the tea.WindowSizeMsg case of MainModel.Update
ResizeAll(st, size) ==
    [st EXCEPT !.mainSize = size,
               !.processes = UpdateSize(@, size),
               !.details = UpdateSize(@, size),
               !.stats = UpdateSize(@, size),
               !.settings = UpdateSize(@, size),
               !.help = UpdateSize(@, size)]

\* the first switch of MainModel.Update: the controller's own handling
MainHandle(st, msg) ==
    CASE msg.t = "resize" -> ResizeAll(st, msg.size)
      [] msg.t = "key" /\ msg.key \in {"esc", "cmd+w"} ->
           IF EscSwitches(st.currentView) THEN SwitchTo(st, ViewProcesses) ELSE st
      [] msg.t = "key" /\ ModeKeyTarget(msg.key) # "" ->
           SwitchTo(st, ModeKeyTarget(msg.key))
      [] msg.t = "switchView" -> SwitchTo(st, msg.view)
      [] OTHER -> st

\* the Update of view model `view` applied to the message
DispatchTo(st, view, msg) ==
    CASE view = ViewProcesses ->
           LET r == ProcessesUpdate(st.processes, st.filters, st.pending, msg)
           IN  [st EXCEPT !.processes = r.m, !.filters = r.flt, !.pending = r.pend,
                          !.blocked = r.blocked]
      [] view = ViewDetails ->
           LET r == DetailsUpdate(st.details, st.pending, msg)
           IN  [st EXCEPT !.details = r.m, !.pending = r.pend]
      [] view = ViewStats ->
           LET r == StatsUpdate(st.stats, st.pending, msg)
           IN  [st EXCEPT !.stats = r.m, !.pending = r.pend]
      [] view = ViewSettings ->
           LET r == SettingsUpdate(st.settings, st.pending, msg)
           IN  [st EXCEPT !.settings = r.m, !.pending = r.pend]
      [] view = ViewHelp ->
           LET r == HelpUpdate(st.help, st.pending, msg)
           IN  [st EXCEPT !.help = r.m, !.pending = r.pend]

\* a mutant: the message is handed to the data views whether shown or not
Dispatch_Broadcast(st, msg) ==
    DispatchTo(DispatchTo(DispatchTo(st, ViewProcesses, msg), ViewDetails, msg),
               st.currentView, msg)

\* "Update the current view": the second switch of MainModel.Update
Dispatch(st, msg) == DispatchTo(st, st.currentView, msg)

\* MainModel.Update
MainUpdate(st, msg) ==
    IF msg.t = "key" /\ msg.key \in QuitKeys
    THEN [st EXCEPT !.quitting = TRUE, !.pending = Issue(st.pending, QuitMsg)]
    ELSE Dispatch(MainHandle(st, msg), msg)

\* NewMainModel, and the batch MainModel.Init returns, which the program
\* runs at its start
InitPending ==
    HelpInit(SettingsInit(StatsInit(DetailsInit(
        ProcessesInit(NewProcessesModel, EmptyBag)))))

\* the bound on the bag: a step that adds to it stays within MaxInFlight
Fits(old, new) ==
    \/ BagCardinality(new) <= BagCardinality(old)
    \/ BagCardinality(new) <= MaxInFlight

\* the event handled last: its kind, the message's or command's type, key,
\* issuing view, outcome, PID, target view and size, and the view shown and
\* that view's selected index when the step began
Event(ev, item) ==
    [ev |-> ev, t |-> item.t, key |-> item.key, o |-> item.o, ok |-> item.ok,
     pid |-> item.pid, to |-> item.view, size |-> item.size, view |-> currentView,
     sel |-> CASE currentView = ViewProcesses -> processes.selectedIndex
               [] currentView = ViewDetails -> details.selectedIndex
               [] OTHER -> 0]

UIInit ==
    /\ currentView = ViewProcesses
    /\ quitting = FALSE
    /\ mainSize = NoSize
    /\ processes = NewProcessesModel
    /\ details = NewDetailsModel
    /\ stats = NewStatsModel
    /\ settings = NewSettingsModel
    /\ help = NewHelpModel
    /\ filters = [i \in FilterIds |-> ZeroFilter]
    /\ pending = InitPending
    /\ live = PIDs
    /\ terminated = FALSE
    /\ last = [ev |-> "init", t |-> "", key |-> "", o |-> "", ok |-> FALSE,
               pid |-> 0, to |-> "", size |-> NoSize, view |-> ViewProcesses,
               sel |-> 0]

\* the model returned by MainModel.Update becomes the program's model
Apply(st) ==
    /\ ~st.blocked
    /\ Fits(pending, st.pending)
    /\ currentView' = st.currentView
    /\ quitting' = st.quitting
    /\ mainSize' = st.mainSize
    /\ processes' = st.processes
    /\ details' = st.details
    /\ stats' = st.stats
    /\ settings' = st.settings
    /\ help' = st.help
    /\ pending' = st.pending
    /\ filters' = Collect(st.filters, st.processes.filter, st.pending)

\* a key press reaches MainModel.Update
Key(k) ==
    /\ ~terminated
    /\ Apply(MainUpdate(State, KeyMsg(k)))
    /\ last' = Event("key", KeyMsg(k))
    /\ UNCHANGED <<live, terminated>>
    /\ UNCHANGED regVars

\* the terminal is resized
Resize(size) ==
    /\ ~terminated
    /\ Apply(MainUpdate(State, WindowSizeMsg(size)))
    /\ last' = Event("resize", WindowSizeMsg(size))
    /\ UNCHANGED <<live, terminated>>
    /\ UNCHANGED regVars

\* a message of a finished command reaches MainModel.Update
Deliver(item) ==
    /\ ~terminated
    /\ item.t \notin CommandTypes
    /\ BagIn(item, pending)
    /\ LET st == [State EXCEPT !.pending = Take(pending, item)]
       IN  CASE item.t = "quit" ->
                  /\ terminated' = TRUE
                  /\ Apply(st)
                  /\ last' = Event("deliver", item)
             [] item.t = "loadConfig" ->
                  \* Storage.LoadConfig succeeds or fails
                  \E ok \in BOOLEAN :
                     /\ Apply(MainUpdate(st, loadConfigMsg(ok)))
                     /\ last' = Event("deliver", loadConfigMsg(ok))
                     /\ UNCHANGED terminated
             [] OTHER ->
                  /\ Apply(MainUpdate(st, item))
                  /\ last' = Event("deliver", item)
                  /\ UNCHANGED terminated
    /\ UNCHANGED live
    /\ UNCHANGED regVars

\* the closure of ProcessesModel.showSearchDialog: the next search term
NextSearchTerm(t) ==
    CASE t = "" -> "system"
      [] t = "system" -> "chrome"
      [] t = "chrome" -> "python"
      [] t = "python" -> ""
      [] OTHER -> ""

\* what the closure of a refresh command computes from the live processes
RefreshResult(item, flt, srt) ==
    IF item.o = ViewProcesses
    THEN SortProcesses(FilterProcesses(GetProcesses(live), flt[item.fid]),
                       IF item.srt = SortCur THEN srt ELSE item.srt)
    ELSE GetProcesses(live)

\* a command runs in its goroutine
Exec(item) ==
    /\ ~terminated
    /\ item.t \in CommandTypes
    /\ BagIn(item, pending)
    /\ LET rest == Take(pending, item)
       IN  CASE item.t = "refreshCmd" ->
                  \E failed \in BOOLEAN :
                     /\ pending' = Issue(rest, refreshProcessesMsg(item.o,
                                      IF failed THEN <<>>
                                      ELSE RefreshResult(item, filters, processes.sort)))
                     /\ filters' = Collect(filters, processes.filter, pending')
                     /\ UNCHANGED live
             [] item.t = "killCmd" ->
                  \* ProcessService.KillProcess
                  \E ok \in (IF item.pid \in live THEN BOOLEAN ELSE {FALSE}) :
                     /\ live' = IF ok THEN live \ {item.pid} ELSE live
                     /\ pending' = Issue(rest, killProcessMsg(item.o, item.pid, ok))
                     /\ UNCHANGED filters
             [] item.t = "filterDlg" ->
                  \* the closure's m.showSystem is the closure's own copy; the
                  \* filterProcessesMsg it returns has no case in any Update
                  /\ pending' = rest
                  /\ filters' = Collect([filters EXCEPT ![item.fid].ShowSystem = ~@],
                                        processes.filter, rest)
                  /\ UNCHANGED live
             [] item.t = "searchDlg" ->
                  /\ pending' = rest
                  /\ filters' = Collect([filters EXCEPT ![item.fid].SearchTerm =
                                             NextSearchTerm(@)],
                                        processes.filter, rest)
                  /\ UNCHANGED live
    /\ last' = Event("exec", item)
    /\ UNCHANGED <<currentView, quitting, mainSize, processes, details, stats,
                   settings, help, terminated>>
    /\ UNCHANGED regVars

(***************************************************************************)
(* Specifications.  Each starts where the program starts, with the batch   *)
(* of MainModel.Init in flight, and takes every step of the event loop and *)
(* of the commands; they differ in the keys pressed.                       *)
(***************************************************************************)
\* the keys MainModel.Update handles itself, and enter
NavKeys == {"q", "esc", "p", "d", "ctrl+s", "h", "e", "enter"}
\* the keys that move the selection or kill, in the two list views
ListKeys == {"up", "down", "ctrl+k", "d", "p"}
\* the keys of the processes view that change the filter or the sort
FilterKeys == {"f", "ctrl+f", "s", "n", "ctrl+r", "ctrl+shift+s", "r"}
\* the sizes the terminal is resized to
Sizes == {<<80, 24>>}

\* the program as constructed: the empty registry and the new MainModel
Init == RegInit /\ UIInit

Next ==
    \/ \E k \in NavKeys : Key(k)
    \/ \E size \in Sizes : Resize(size)
    \/ \E item \in BagToSet(pending) : Deliver(item)
    \/ \E item \in BagToSet(pending) : Exec(item)

Spec == Init /\ [][Next]_vars

SpecShortcuts == Init /\ [][RegNext]_vars

NextList ==
    \/ \E k \in ListKeys : Key(k)
    \/ \E item \in BagToSet(pending) : Deliver(item)
    \/ \E item \in BagToSet(pending) : Exec(item)

SpecList == Init /\ [][NextList]_vars

NextFilter ==
    \/ \E k \in FilterKeys : Key(k)
    \/ \E item \in BagToSet(pending) : Deliver(item)
    \/ \E item \in BagToSet(pending) : Exec(item)

SpecFilter == Init /\ [][NextFilter]_vars

\* three of the sort keys of the processes view
SortKeys == {"o", "n", "m"}

NextSort ==
    \/ \E k \in SortKeys : Key(k)
    \/ \E item \in BagToSet(pending) : Deliver(item)
    \/ \E item \in BagToSet(pending) : Exec(item)

SpecSort == Init /\ [][NextSort]_vars

\* the mode keys and the movement of the selection, for the resize events
ResizeKeys == {"d", "h", "e", "down"}
\* two sizes, so that a size replaces another
ResizeSizes == {<<80, 24>>, <<120, 40>>}

NextResize ==
    \/ \E k \in ResizeKeys : Key(k)
    \/ \E size \in ResizeSizes : Resize(size)
    \/ \E item \in BagToSet(pending) : Deliver(item)
    \/ \E item \in BagToSet(pending) : Exec(item)

SpecResize == Init /\ [][NextResize]_vars

\* keys the README and the views' control lists name, and the keys that
\* bring up the Statistics and the Help view
DocKeys == {"ctrl+d", "ctrl+e", "ctrl+s", "h"}

NextDoc ==
    \/ \E k \in DocKeys : Key(k)
    \/ \E item \in BagToSet(pending) : Deliver(item)
    \/ \E item \in BagToSet(pending) : Exec(item)

SpecDoc == Init /\ [][NextDoc]_vars

\* the shortcut system: construction and validated creation
SpecSystem == Init /\ [][SysNext]_vars

\* the shortcut system reconfigured by presets and stored configurations
SpecPreset == Init /\ [][PresetNext]_vars

\* the registry exported as a configuration and applied again
SpecExport == Init /\ [][ExportNext]_vars

\* shortcuts registered, enabled and disabled
SpecToggle == Init /\ [][ToggleNext]_vars

\* shortcuts created on a system whose registry holds every key once
SpecCreate == Init /\ [][CreateNext]_vars

\* conflicts resolved and shortcuts deleted through the ShortcutSystem
SpecMaintain == Init /\ [][MaintainNext]_vars

\* shortcuts listed and updated through the ShortcutSystem
SpecUpdate == Init /\ [][UpdateNext]_vars

\* ParseKey on the key strings
SpecParse == Init /\ [][ParseNext]_vars

\* ParseKey on the key strings and on the strings of the keys parsed
SpecRoundTrip == Init /\ [][RoundTripNext]_vars

\* key events with every combination of flags against parsed key strings
SpecResolve == Init /\ [][ResolveNext]_vars

(***************************************************************************)
(*                               CLAIMS                                    *)
(***************************************************************************)
\* the key of the HandleKey call just made
HkKey == [Key |-> hkMsg.Str, Modifier |-> getModifierFromMsg(hkMsg)]
\* positions of the enabled shortcuts for key in a context's list
EnabledAt(ctx, key) ==
    { i \in 1..Len(shortcuts[ctx]) :
         shortcuts[ctx][i].Key = key /\ shortcuts[ctx][i].Enabled }
\* positions of all shortcuts for key in a context's list
RegisteredAt(ctx, key) ==
    { i \in 1..Len(shortcuts[ctx]) : shortcuts[ctx][i].Key = key }
\* a HandleKey call was just made in a context other than Global
HkInContext == hkMsg # NoMsg /\ context # ContextGlobal

\* C1: when the current context (not Global) and Global both hold an enabled
\* shortcut for the key, HandleKey returns the command of the first enabled
\* one of the current context, and not a command of a Global shortcut.
C1_Shadowing ==
    (HkInContext /\ EnabledAt(context, HkKey) # {}
                 /\ EnabledAt(ContextGlobal, HkKey) # {}) =>
        /\ \E i \in EnabledAt(context, HkKey) :
              /\ \A j \in EnabledAt(context, HkKey) : i <= j
              /\ hkCmd = shortcuts[context][i].Handler
        /\ \A j \in 1..Len(shortcuts[ContextGlobal]) :
              hkCmd # shortcuts[ContextGlobal][j].Handler

\* C1 witness: HandleKey was called with the key enabled in both lists
C1_Witness ==
    /\ HkInContext
    /\ EnabledAt(context, HkKey) # {}
    /\ EnabledAt(ContextGlobal, HkKey) # {}
    /\ hkCmd # NoCmd

\* C2: when the current context (not Global) has no enabled shortcut for the
\* key (none registered, or all disabled) and Global has one, HandleKey
\* returns the command of Global's first enabled shortcut for the key.
C2_GlobalFallback ==
    (HkInContext /\ EnabledAt(context, HkKey) = {}
                 /\ EnabledAt(ContextGlobal, HkKey) # {}) =>
        \E i \in EnabledAt(ContextGlobal, HkKey) :
            /\ \A j \in EnabledAt(ContextGlobal, HkKey) : i <= j
            /\ hkCmd = shortcuts[ContextGlobal][i].Handler

\* C2 witness: HandleKey was called where the context's only shortcuts for
\* the key are disabled and Global's first shortcut for the key is disabled
\* but a later one is enabled
C2_Witness ==
    /\ HkInContext
    /\ RegisteredAt(context, HkKey) # {}
    /\ EnabledAt(context, HkKey) = {}
    /\ EnabledAt(ContextGlobal, HkKey) # {}
    /\ RegisteredAt(ContextGlobal, HkKey) # EnabledAt(ContextGlobal, HkKey)
    /\ hkCmd # NoCmd

\* the selected index of a list view is an index of its snapshot, 0 if empty
SelInRange(m) ==
    IF m.processes = <<>> THEN m.selectedIndex = 0
    ELSE 0 <= m.selectedIndex /\ m.selectedIndex < Len(m.processes)

\* C3: in the ProcessList and Details view models the selected index is
\* within the snapshot when it is non-empty and 0 when it is empty, after
\* every sequence of key, refresh, timer and kill events.
C3_SelectionIndex == SelInRange(processes) /\ SelInRange(details)

\* C3 witness: a refresh result shorter than the selection was delivered to
\* the Details view, which brought its index down into the new snapshot
C3_Witness ==
    /\ last.ev = "deliver" /\ last.t = "refreshMsg"
    /\ last.view = ViewDetails
    /\ details.processes # <<>>
    /\ last.sel > details.selectedIndex
    /\ details.selectedIndex = Len(details.processes) - 1

\* C4: a refresh result is applied only to the view that issued the refresh;
\* delivered while another view is shown, it is dropped and changes no
\* snapshot (so the ProcessList snapshot holds only its own filtered lists).
C4_RefreshStaysWithIssuer ==
    [][(last'.ev = "deliver" /\ last'.t = "refreshMsg" /\ last'.o # last'.view) =>
          (processes' = processes /\ details' = details /\ stats' = stats)]_vars

\* the number of refresh timers in flight
Timers(pend) == CopiesIn(Plain("timer"), pend)
\* the number of refresh commands of a view in flight
Refreshes(pend, view) ==
    SumCopies({x \in BagToSet(pend) : x.t = "refreshCmd" /\ x.o = view}, pend)

\* C5: handling a timer-fired event in the shown ProcessList, Details or
\* Stats view issues a refresh command of that view and re-arms the timer.
C5_TimerRearmed ==
    [][(last'.ev = "deliver" /\ last'.t = "timer"
          /\ last'.view \in {ViewProcesses, ViewDetails, ViewStats}) =>
          /\ Refreshes(pending', last'.view) = Refreshes(pending, last'.view) + 1
          /\ Timers(pending') = Timers(pending)]_vars

\* C6: the ProcessList filter is written only by the event loop: a step of
\* an asynchronous command leaves the model's filter object as it was.
C6_FilterWrittenByLoopOnly ==
    [][last'.ev = "exec" =>
          filters'[processes.filter] = filters[processes.filter]]_vars

\* C7: an event other than a resize leaves every view model but the one
\* shown after the controller's own handling of the event unchanged.
C7_OnlyActiveViewChanges ==
    [][last'.ev \in {"key", "deliver"} =>
          /\ currentView' # ViewProcesses =>
                /\ processes' = processes
                /\ filters'[processes.filter] = filters[processes.filter]
          /\ currentView' # ViewDetails => details' = details
          /\ currentView' # ViewStats => stats' = stats
          /\ currentView' # ViewSettings => settings' = settings
          /\ currentView' # ViewHelp => help' = help]_vars

\* C7 witness: a refresh result was delivered while the ProcessList view was
\* shown and became its snapshot, and the Details and Stats snapshots are
\* still the empty ones they started with
C7_Witness ==
    /\ last.ev = "deliver" /\ last.t = "refreshMsg"
    /\ last.view = ViewProcesses /\ currentView = ViewProcesses
    /\ processes.processes # <<>>
    /\ details.processes = <<>> /\ stats.processes = <<>>

\* the view a mode-switch key names
C8_Target(k) ==
    CASE k = "p" -> ViewProcesses
      [] k = "d" -> ViewDetails
      [] k = "ctrl+s" -> ViewStats
      [] k = "h" -> ViewHelp
      [] k = "e" -> ViewSettings
      [] OTHER -> ""
\* the commands the Init of a view issues
C8_InitCommands(view) ==
    CASE view = ViewProcesses ->
           SetToBag({[Plain("refreshCmd") EXCEPT !.o = ViewProcesses,
                         !.fid = processes.filter, !.srt = SortCur],
                     Plain("timer")})
      [] view \in {ViewDetails, ViewStats} ->
           SetToBag({[Plain("refreshCmd") EXCEPT !.o = view], Plain("timer")})
      [] view = ViewSettings ->
           SetToBag({[Plain("loadConfig") EXCEPT !.o = ViewSettings]})
      [] view = ViewHelp -> EmptyBag

\* C8: a mode-switch key, and a SwitchViewMsg, makes its target the current
\* view whatever view was shown, and the step issues the Init commands of
\* the target, also when the target was shown already.
C8_ModeSwitch ==
    [][/\ (last'.ev = "key" /\ C8_Target(last'.key) # "") =>
             /\ currentView' = C8_Target(last'.key)
             /\ pending' = pending (+) C8_InitCommands(C8_Target(last'.key))
       /\ (last'.ev = "deliver" /\ last'.t = "switchView") =>
             /\ currentView' = last'.to
             /\ pending' (+) SetToBag({[Plain("switchView") EXCEPT
                                           !.o = last'.o, !.view = last'.to]})
                  = pending (+) C8_InitCommands(last'.to)]_vars

\* C8 witness: "d" was pressed in the Details view and its Init commands were
\* issued again
C8_Witness ==
    /\ last.ev = "key" /\ last.key = "d"
    /\ last.view = ViewDetails /\ currentView = ViewDetails
    /\ BagIn([Plain("refreshCmd") EXCEPT !.o = ViewDetails], pending)

\* C9: escape makes ProcessList the current view; pressed in ProcessList it
\* changes no view, no view model and issues no command.
C9_Escape ==
    [][(last'.ev = "key" /\ last'.key = "esc") =>
          /\ currentView' = ViewProcesses
          /\ last'.view = ViewProcesses =>
                /\ pending' = pending
                /\ processes' = processes /\ filters' = filters
                /\ details' = details /\ stats' = stats
                /\ settings' = settings /\ help' = help]_vars

\* C9 witness: escape was pressed in the ProcessList view with a snapshot
\* on display
C9_Witness ==
    /\ last.ev = "key" /\ last.key = "esc"
    /\ last.view = ViewProcesses
    /\ processes.processes # <<>>

\* C9 witness of the other case: escape was pressed in the Help view
C9_WitnessBack ==
    /\ last.ev = "key" /\ last.key = "esc"
    /\ last.view = ViewHelp /\ currentView = ViewProcesses

\* C10: when the kill of the selected process succeeds in the ProcessList
\* view, the selection moves to the next process, or back by one when the
\* selected process was the last of several.
C10_KillSuccessMovesSelection ==
    [][(/\ last'.ev = "deliver" /\ last'.t = "killMsg" /\ last'.ok
        /\ last'.view = ViewProcesses /\ last'.o = ViewProcesses
        /\ processes.processes # <<>>
        /\ processes.selectedIndex < Len(processes.processes)
        /\ processes.processes[processes.selectedIndex + 1] = last'.pid) =>
          processes'.selectedIndex =
             IF processes.selectedIndex < Len(processes.processes) - 1
             THEN processes.selectedIndex + 1
             ELSE IF processes.selectedIndex > 0
                  THEN processes.selectedIndex - 1
                  ELSE processes.selectedIndex]_vars

\* the kill commands for a PID in flight
KillCmds(pend, pid) ==
    SumCopies({x \in BagToSet(pend) : x.t = "killCmd" /\ x.pid = pid}, pend)

\* C11: when a kill-failure message is delivered, the snapshots, the
\* selections, the ProcessList filter and sort are as before, and no kill
\* command for that PID is issued by the step, whatever view receives it.
C11_KillFailureNoRetry ==
    [][(last'.ev = "deliver" /\ last'.t = "killMsg" /\ ~last'.ok) =>
          /\ processes'.processes = processes.processes
          /\ processes'.selectedIndex = processes.selectedIndex
          /\ processes'.filter = processes.filter
          /\ processes'.sort = processes.sort
          /\ filters'[processes.filter] = filters[processes.filter]
          /\ details'.processes = details.processes
          /\ details'.selectedIndex = details.selectedIndex
          /\ stats'.processes = stats.processes
          /\ KillCmds(pending', last'.pid) = KillCmds(pending, last'.pid)]_vars

\* C11 witness: a kill failure was delivered to the Details view with a row
\* selected beyond the first, and the process is still alive
C11_Witness ==
    /\ last.ev = "deliver" /\ last.t = "killMsg" /\ ~last.ok
    /\ last.view = ViewDetails /\ currentView = ViewDetails
    /\ details.selectedIndex > 0
    /\ last.pid \in live

\* C12: when a kill-failure message is handled, the error is recorded in a
\* view model or a command showing it is issued: the step changes a view
\* model or leaves more in flight than the message it took away.
C12_KillFailureSurfaced ==
    [][(last'.ev = "deliver" /\ last'.t = "killMsg" /\ ~last'.ok) =>
          \/ processes' # processes
          \/ details' # details
          \/ stats' # stats
          \/ settings' # settings
          \/ help' # help
          \/ pending' (+) SetToBag({[Plain("killMsg") EXCEPT !.o = last'.o,
                                        !.pid = last'.pid]}) # pending]_vars

\* the field a sort key of the ProcessList view stands for
C13_Field(k) ==
    CASE k = "o" -> "cpu"
      [] k = "n" -> "name"
      [] k = "m" -> "memory"
      [] OTHER -> ""

\* C13: in the ProcessList view, the sort key of the field in effect flips
\* the order between descending and ascending, and the sort key of another
\* field selects that field with order descending (so from cpu/descending
\* the name key gives name/descending and then name/ascending).
C13_SortToggle ==
    [][(last'.ev = "key" /\ last'.view = ViewProcesses
          /\ C13_Field(last'.key) # "") =>
          IF processes.sort.Field = C13_Field(last'.key)
          THEN /\ processes'.sort.Field = processes.sort.Field
               /\ processes.sort.Order = "desc" => processes'.sort.Order = "asc"
               /\ processes.sort.Order = "asc" => processes'.sort.Order = "desc"
          ELSE processes'.sort = [Field |-> C13_Field(last'.key), Order |-> "desc"]]_vars

\* C13 witness: the name key was pressed with name in effect, which only a
\* press of the name key before it brings about, and the order is ascending
C13_Witness ==
    /\ last.ev = "key" /\ last.key = "n" /\ last.view = ViewProcesses
    /\ processes.sort = [Field |-> "name", Order |-> "asc"]

\* the keys of the ProcessList view that change its filter or its sort
C14_CriteriaKeys ==
    {"o", "m", "ctrl+p", "n", "t", "u", "ctrl+t", "ctrl+n",
     "ctrl+r", "ctrl+shift+f", "ctrl+shift+s", "s", "f", "ctrl+f"}

\* C14: in the ProcessList view, the step that handles a key changing the
\* filter or the sort (a sort key, a reset key, s, f, ctrl+f) issues a
\* refresh command of the view.
C14_CriteriaKeyRefreshes ==
    [][(last'.ev = "key" /\ last'.view = ViewProcesses
          /\ last'.key \in C14_CriteriaKeys) =>
          Refreshes(pending', ViewProcesses) =
             Refreshes(pending, ViewProcesses) + 1]_vars

\* C15: whatever was registered, enabled and disabled, GetShortcut(key,
\* context) returns no shortcut whose Enabled flag is false, and returns none
\* when every shortcut with the key in the context is disabled.
C15_DisabledInvisible ==
    \A ctx \in Contexts, key \in RegKeys :
        LET r == GetShortcut(shortcuts, key, ctx)
        IN  /\ r # <<>> => (r[1].Enabled /\ r[1].Key = key)
            /\ EnabledAt(ctx, key) = {} => r = <<>>
            /\ EnabledAt(ctx, key) # {} => r # <<>>

\* C15 witness: a context holds two shortcuts for a key, both disabled, and
\* the lookup of the key there returns none
C15_Witness ==
    \E ctx \in Contexts, key \in RegKeys :
        /\ Cardinality(RegisteredAt(ctx, key)) >= 2
        /\ EnabledAt(ctx, key) = {}
        /\ GetShortcut(shortcuts, key, ctx) = <<>>

\* the registrations of a key: the places it has in the lists of all contexts
Registrations(key) ==
    { p \in Contexts \X (1..MaxShortcuts) : p[2] \in RegisteredAt(p[1], key) }

\* C16: after any RegisterShortcut calls, GetConflicts reports exactly the
\* keys registered more than once: a key registered twice in one context is
\* reported with at least 2 shortcuts, a key registered once is not reported.
C16_ConflictsExact ==
    \A key \in RegKeys :
        LET cf == GetConflicts(conflicts)
        IN  /\ (\E ctx \in Contexts : Cardinality(RegisteredAt(ctx, key)) >= 2) =>
                  (key \in DOMAIN cf /\ Len(cf[key]) >= 2)
            /\ Cardinality(Registrations(key)) = 1 => key \notin DOMAIN cf
            /\ key \in DOMAIN cf <=> Cardinality(Registrations(key)) > 1
            /\ key \in DOMAIN cf => Len(cf[key]) = Cardinality(Registrations(key))

\* C16 witness: one key was registered twice in one context and is reported,
\* another key was registered once and is not
C16_Witness ==
    \E k1 \in RegKeys, k2 \in RegKeys, ctx \in Contexts :
        /\ Cardinality(RegisteredAt(ctx, k1)) = 2
        /\ k1 \in DOMAIN GetConflicts(conflicts)
        /\ Cardinality(Registrations(k2)) = 1
        /\ k2 \notin DOMAIN GetConflicts(conflicts)

\* C17: a key registered at most once in every context, in particular once
\* in each of two contexts, is not reported by GetConflicts.
C17_CrossContextNoConflict ==
    \A key \in RegKeys :
        (\A ctx \in Contexts : Cardinality(RegisteredAt(ctx, key)) <= 1) =>
            key \notin DOMAIN GetConflicts(conflicts)

\* C18: CreateShortcut returns an error and leaves the lists of the contexts
\* and the conflict buckets as they were, when the parsed key has an empty
\* base key or is reported as conflicting (its bucket has more than one
\* shortcut).
C18_CreateRejected ==
    [][sysOp'.op = "create" =>
          LET key == ParseKey(sysOp'.str)
          IN  (\/ key.Key = ""
               \/ key \in DOMAIN conflicts /\ Len(conflicts[key]) > 1) =>
                 /\ sysOp'.err # ""
                 /\ shortcuts' = shortcuts
                 /\ conflicts' = conflicts]_vars

\* C18 witness: a CreateShortcut of a key with modifiers was rejected for a
\* conflict, two shortcuts for the key having been created before
C18_Witness ==
    /\ sysOp.op = "create" /\ sysOp.err = "conflict"
    /\ ParseKey(sysOp.str).Modifier = ModCtrlAlt
    /\ ParseKey(sysOp.str) \in DOMAIN GetConflicts(conflicts)
    /\ nextHandler = 3

\* C18 witness of the other case: a key string with a modifier and no base
\* key was rejected
C18_WitnessEmpty ==
    /\ sysOp.op = "create" /\ sysOp.err = "empty"
    /\ sysOp.str = CtrlPlus

\* the bindings of the registry: its shortcuts without their handlers
Bindings(sc) ==
    { [Key |-> sc[c][i].Key, Action |-> sc[c][i].Action,
       Description |-> sc[c][i].Description, Context |-> c,
       Enabled |-> sc[c][i].Enabled] : <<c, i>> \in
          { p \in Contexts \X (1..Len(getDefaultShortcuts)) : p[2] <= Len(sc[p[1]]) } }

\* the number of shortcuts in the lists of the model's three contexts
Registered(sc) ==
    Len(sc[ContextGlobal]) + Len(sc[ContextProcesses]) + Len(sc[ContextDetails])

\* C19: when loading the stored shortcut configuration returns an error,
\* NewShortcutSystem yields a system whose registry holds exactly the
\* bindings of getDefaultShortcuts, with active preset "default".
C19_FallbackToDefaults ==
    (sysOp.op = "new" /\ sysOp.err # "") =>
        /\ config.ActivePreset = "default"
        /\ Registered(shortcuts) = Len(getDefaultShortcuts)
        /\ Bindings(shortcuts) =
              { [Key |-> ParseKey(getDefaultShortcuts[i].Key),
                 Action |-> getDefaultShortcuts[i].Action,
                 Description |-> getDefaultShortcuts[i].Description,
                 Context |-> getDefaultShortcuts[i].Context,
                 Enabled |-> getDefaultShortcuts[i].Enabled] :
                   i \in 1..Len(getDefaultShortcuts) }

\* C19 witness: the system was constructed after a load error, and the range
\* over the default items did not start at the first of them
C19_Witness ==
    /\ sysOp.op = "new" /\ sysOp.err = "load"
    /\ Len(shortcuts[ContextGlobal]) > 0
    /\ shortcuts[ContextGlobal][1].Action # "quit"

\* the modifiers the tokens of a key string name
C20_Names(toks) == { toks[i].name : i \in 1..Len(toks) }

\* C20: ParseKey gives the same ShortcutKey for key strings with the same
\* base key whose modifier tokens name the same modifiers, whatever the
\* order and the letter case of the tokens; the base key is kept as written,
\* so key strings whose base keys differ, if only in case, give different
\* keys.
C20_ParseKeyCanonical ==
    /\ \A i \in 1..Len(parsed) : parsed[i].key.Key = Str(parsed[i].base)
    /\ Len(parsed) = 2 =>
          /\ (C20_Names(parsed[1].toks) = C20_Names(parsed[2].toks)
                /\ parsed[1].base = parsed[2].base) =>
                parsed[1].key = parsed[2].key
          /\ parsed[1].base # parsed[2].base => parsed[1].key # parsed[2].key

\* C20 witness: two key strings with the tokens of ctrl and alt in opposite
\* orders and different letter case, and the same base key, were parsed to
\* the same key
C20_Witness ==
    /\ Len(parsed) = 2
    /\ Len(parsed[1].toks) = 2 /\ Len(parsed[2].toks) = 2
    /\ parsed[1].toks[1].name = parsed[2].toks[2].name
    /\ parsed[1].toks[1].text # parsed[2].toks[2].text
    /\ parsed[1].toks[2].name = parsed[2].toks[1].name
    /\ parsed[1].base = parsed[2].base
    /\ parsed[1].str # parsed[2].str
    /\ parsed[1].key = parsed[2].key
    /\ parsed[1].key.Modifier = ModCtrlAlt

\* the modifiers the flags of a key event name
C21_Flags(msg) ==
    (IF msg.Ctrl THEN {"ctrl"} ELSE {}) \cup (IF msg.Alt THEN {"alt"} ELSE {})
       \cup (IF msg.Shift THEN {"shift"} ELSE {})

\* the keys ParseKey gives for the key strings that name exactly the
\* modifiers of the event's flags, with the event's key as base key
C21_SpecKeys(msg) ==
    { ParseKey(JoinKey(toks, <<msg.Str>>)) :
         toks \in { t \in TokenSeqs : C20_Names(t) = C21_Flags(msg) } }

C22_SizeOf(m) == <<m.width, m.height>>

\* C22: the step that handles a resize event (w, h), whatever view is shown,
\* leaves the controller and the five view models with width w and height
\* h, and leaves the view shown, the snapshots, the selections and the
\* ProcessList filter and sort as they were.
C22_ResizeBroadcast ==
    [][last'.ev = "resize" =>
          /\ mainSize' = last'.size
          /\ C22_SizeOf(processes') = last'.size
          /\ C22_SizeOf(details') = last'.size
          /\ C22_SizeOf(stats') = last'.size
          /\ C22_SizeOf(settings') = last'.size
          /\ C22_SizeOf(help') = last'.size
          /\ currentView' = currentView
          /\ processes'.processes = processes.processes
          /\ processes'.selectedIndex = processes.selectedIndex
          /\ processes'.filter = processes.filter
          /\ processes'.sort = processes.sort
          /\ filters'[processes.filter] = filters[processes.filter]
          /\ details'.processes = details.processes
          /\ details'.selectedIndex = details.selectedIndex
          /\ stats'.processes = stats.processes]_vars

\* C22 witness: the terminal was resized to 120 by 40 while the Help view
\* was shown, and the ProcessList view holds that size and its snapshot
C22_Witness ==
    /\ last.ev = "resize" /\ last.size = <<120, 40>>
    /\ last.view = ViewHelp /\ currentView = ViewHelp
    /\ C22_SizeOf(processes) = <<120, 40>>
    /\ processes.processes # <<>>

\* C23: a HandleKey call leaves the manager's context, the lists of the
\* contexts with their enabled flags and the conflict buckets as they were,
\* and returns no command when neither the current context nor Global holds
\* an enabled shortcut for the event's key.
C23_HandleKeyNoMatch ==
    [][hkMsg' # NoMsg =>
          /\ context' = context
          /\ shortcuts' = shortcuts
          /\ conflicts' = conflicts
          /\ (EnabledAt(context, MsgKey(hkMsg')) = {}
                /\ EnabledAt(ContextGlobal, MsgKey(hkMsg')) = {}) =>
                hkCmd' = NoCmd]_vars

\* C23 witness: HandleKey returned no command in a context other than
\* Global, where the context and Global each hold a shortcut for the key,
\* both disabled
C23_Witness ==
    /\ HkInContext
    /\ RegisteredAt(context, HkKey) # {}
    /\ RegisteredAt(ContextGlobal, HkKey) # {}
    /\ EnabledAt(context, HkKey) = {}
    /\ EnabledAt(ContextGlobal, HkKey) = {}
    /\ hkCmd = NoCmd

\* the bindings of a list of configuration items, their keys parsed
C24_ItemBindings(items) ==
    { [Key |-> ParseKey(items[i].Key), Action |-> items[i].Action,
       Description |-> items[i].Description, Context |-> items[i].Context,
       Enabled |-> items[i].Enabled] : i \in 1..Len(items) }

\* the items of the three presets
C24_Preset(name) ==
    CASE name = "default" -> getDefaultShortcuts
      [] name = "vim" -> getVimShortcuts
      [] name = "emacs" -> getEmacsShortcuts

\* the bindings and the number of items of each preset
C24_Expected ==
    [name \in {"default", "vim", "emacs"} |->
        [bindings |-> C24_ItemBindings(C24_Preset(name)),
         count |-> Len(C24_Preset(name))]]

\* the shortcuts of a registry, from the lists of all contexts
C24_Shortcuts(sc) ==
    { sc[p[1]][p[2]] :
        p \in { q \in Contexts \X (1..Len(getDefaultShortcuts)) :
                  q[2] <= Len(sc[q[1]]) } }

\* the elements of a list
C24_Elems(l) == { l[i] : i \in 1..Len(l) }

\* C24: after ApplyPreset of a known preset name the registry holds exactly
\* the bindings of the items of that preset, one shortcut for each, none of
\* them a shortcut created before; the conflict buckets hold exactly these
\* shortcuts, each under its key; and the manager's context is as before.
C24_PresetWholesale ==
    [][(sysOp'.op = "preset" /\ sysOp'.name \in {"default", "vim", "emacs"}) =>
          /\ sysOp'.err = ""
          /\ Bindings(shortcuts') = C24_Expected[sysOp'.name].bindings
          /\ Registered(shortcuts') = C24_Expected[sysOp'.name].count
          /\ LET all == C24_Shortcuts(shortcuts')
             IN  /\ \A x \in all : x.Handler > MaxShortcuts
                 /\ DOMAIN conflicts' = { x.Key : x \in all }
                 /\ \A key \in DOMAIN conflicts' :
                       /\ C24_Elems(conflicts'[key]) = { x \in all : x.Key = key }
                       /\ Len(conflicts'[key]) =
                             Cardinality({ x \in all : x.Key = key })
          /\ context' = context]_vars

\* C24 witness: the vim preset was applied in the Processes context to a
\* registry that held a created shortcut, and the registry holds the
\* preset's "dd" and no shortcut for "k"
C24_Witness ==
    /\ sysOp.op = "preset" /\ sysOp.name = "vim" /\ sysOp.err = ""
    /\ context = ContextProcesses
    /\ nextHandler > 1
    /\ \E x \in C24_Shortcuts(shortcuts) : x.Key = [Key |-> "dd", Modifier |-> ModNone]
    /\ \A x \in C24_Shortcuts(shortcuts) : x.Key.Key # "k"

\* C27: when ShortcutSystem.LoadConfig cannot load the file, and when
\* ApplyPreset is given a name that is no preset's, the call returns an
\* error and the system's configuration, the lists of the contexts, the
\* conflict buckets and the manager's context are as before.
C27_FailedReconfiguration ==
    [][(\/ sysOp'.op = "load" /\ sysOp'.err # ""
        \/ sysOp'.op = "preset" /\ sysOp'.name \notin {"default", "vim", "emacs"}) =>
          /\ sysOp'.err # ""
          /\ config' = config
          /\ shortcuts' = shortcuts
          /\ conflicts' = conflicts
          /\ context' = context]_vars

\* C27 witness: LoadConfig failed on a system that had the vim preset
\* applied and a shortcut created since, in the Processes context
C27_Witness ==
    /\ sysOp.op = "load" /\ sysOp.err # ""
    /\ config.ActivePreset = "vim"
    /\ context = ContextProcesses
    /\ \E x \in C24_Shortcuts(shortcuts) : x.Handler <= MaxShortcuts

\* C27 witness of the other case: a preset name that does not exist was
\* refused on a system that had the emacs preset applied
C27_WitnessUnknown ==
    /\ sysOp.op = "preset" /\ sysOp.name = "nano" /\ sysOp.err # ""
    /\ config.ActivePreset = "emacs"
    /\ Registered(shortcuts) = Len(getEmacsShortcuts)

\* C25: the step that handles the key Ctrl+D, in whatever view, makes the
\* Details view the current view and does not quit the application.
C25_CtrlDShowsDetails ==
    [][(last'.ev = "key" /\ last'.key = "ctrl+d") =>
          (currentView' = ViewDetails /\ ~quitting')]_vars

\* C26: in the Statistics view, the step that handles the key Ctrl+E issues
\* the export of the statistics and leaves the Statistics view shown.
C26_CtrlEExportsStats ==
    [][(last'.ev = "key" /\ last'.key = "ctrl+e" /\ last'.view = ViewStats) =>
          /\ currentView' = ViewStats
          /\ pending' = pending (+) SetToBag({[Plain("other") EXCEPT
                                                 !.o = ViewStats, !.key = "export"]})]_vars

\* C28: ExportConfig followed by ApplyConfig of the configuration exported
\* leaves the registry with the same set of bindings (key, action,
\* description, context, enabled) as it had, whatever was registered.
C28_ExportApplyRoundTrip ==
    [][sysOp'.op = "export" => Bindings(shortcuts') = Bindings(shortcuts)]_vars

\* the call made last left the lists as they were but for the Enabled flag
\* of the first entry for its key in its context, which is b; it left them
\* wholly as they were when the context has no entry for the key
C29_OnlyFirstFlag(b) ==
    LET key == ParseKey(sysOp'.str)
        c == sysOp'.ctx
        at == RegisteredAt(c, key)
    IN  IF at = {} THEN shortcuts' = shortcuts
        ELSE LET i == CHOOSE n \in at : \A j \in at : n <= j
             IN  /\ shortcuts'[c][i] = [shortcuts[c][i] EXCEPT !.Enabled = b]
                 /\ Len(shortcuts'[c]) = Len(shortcuts[c])
                 /\ \A j \in 1..Len(shortcuts[c]) :
                       j # i => shortcuts'[c][j] = shortcuts[c][j]
                 /\ \A d \in Contexts : d # c => shortcuts'[d] = shortcuts[d]

\* every lookup gives what it gave before the step
C29_LookupsRestored ==
    \A c \in Contexts, key \in RegKeys :
        GetShortcut(shortcuts', key, c) = GetShortcut(shortcuts, key, c)

\* the first entry for the key of the call in the context of the call is
\* enabled, if there is one
C29_FirstEnabled ==
    LET at == RegisteredAt(sysOp'.ctx, ParseKey(sysOp'.str))
    IN  \A i \in at : (\A j \in at : i <= j) => shortcuts[sysOp'.ctx][i].Enabled

\* C29 as claimed: DisableShortcut clears and EnableShortcut sets the flag
\* of the first entry for the key in the context's list and nothing else,
\* both change nothing when there is no such entry, and DisableShortcut
\* followed by EnableShortcut restores the result of every lookup.
C29_DisableEnable ==
    [][/\ sysOp'.op = "disable" => C29_OnlyFirstFlag(FALSE)
       /\ sysOp'.op = "enable" => C29_OnlyFirstFlag(TRUE)
       /\ sysOp'.op = "disable-enable" => C29_LookupsRestored]_vars

\* C29 amended: as claimed, but DisableShortcut followed by EnableShortcut
\* restores the result of every lookup when the first entry for the key was
\* enabled before (or there was none); in every case it leaves that entry
\* enabled and the rest as it was.
C29_DisableEnableOfEnabled ==
    [][/\ sysOp'.op = "disable" => C29_OnlyFirstFlag(FALSE)
       /\ sysOp'.op = "enable" => C29_OnlyFirstFlag(TRUE)
       /\ sysOp'.op = "disable-enable" =>
             /\ C29_OnlyFirstFlag(TRUE)
             /\ C29_FirstEnabled => C29_LookupsRestored]_vars

\* C29 witness: DisableShortcut was called for a key with two entries in the
\* context, the first is now disabled, the second is enabled and is what a
\* lookup gives
C29_Witness ==
    /\ sysOp.op = "disable"
    /\ Cardinality(RegisteredAt(sysOp.ctx, ParseKey(sysOp.str))) = 2
    /\ Cardinality(EnabledAt(sysOp.ctx, ParseKey(sysOp.str))) = 1
    /\ GetShortcut(shortcuts, ParseKey(sysOp.str), sysOp.ctx) # <<>>
    /\ GetShortcut(shortcuts, ParseKey(sysOp.str), sysOp.ctx)[1].Handler = 2

\* C30: when a kill-success message is handled in the Details view, the
\* selection moves to the next index if the selected entry is not the last,
\* else back by one if the index is greater than 0; the snapshot is left as
\* it was and the index is within it (0 when it is empty).
C30_DetailsKillSuccess ==
    [][(last'.ev = "deliver" /\ last'.t = "killMsg" /\ last'.ok
          /\ last'.view = ViewDetails) =>
          /\ details'.processes = details.processes
          /\ details'.selectedIndex =
                IF details.selectedIndex < Len(details.processes) - 1
                THEN details.selectedIndex + 1
                ELSE IF details.selectedIndex > 0
                     THEN details.selectedIndex - 1
                     ELSE details.selectedIndex
          /\ SelInRange(details')]_vars

\* C30 witness: the kill of the last of several entries of the Details view
\* succeeded and the selection went back by one
C30_Witness ==
    /\ last.ev = "deliver" /\ last.t = "killMsg" /\ last.ok
    /\ last.view = ViewDetails /\ last.o = ViewDetails
    /\ last.sel = Len(details.processes) - 1
    /\ last.sel > 0
    /\ details.selectedIndex = last.sel - 1
    /\ details.processes[last.sel + 1] = last.pid

\* C30 witness of the other case: the kill of an entry that is not the last
\* succeeded and the selection went on to the next
C30_WitnessNext ==
    /\ last.ev = "deliver" /\ last.t = "killMsg" /\ last.ok
    /\ last.view = ViewDetails /\ last.o = ViewDetails
    /\ last.sel < Len(details.processes) - 1
    /\ details.selectedIndex = last.sel + 1

C32_HandlersOf(c, key) ==
    { shortcuts'[c][i].Handler :
         i \in { j \in 1..Len(shortcuts'[c]) : shortcuts'[c][j].Key = key } }

\* after the step a lookup of key in context c gives none, and HandleKey in
\* context c runs no binding of c for an event with that key
C32_OutOfContext(c, key) ==
    /\ GetShortcut(shortcuts', key, c) = <<>>
    /\ \A msg \in KeyMsgs :
          MsgKey(msg) = key =>
             HandleKey(shortcuts', c, msg) \notin C32_HandlersOf(c, key)

\* C32 as claimed: after DisableShortcut(key, context) or
\* DeleteShortcut(key, context) a lookup of the key in the context gives
\* none and HandleKey in the context runs no binding of the context for the
\* key, however many entries the context has for the key.
C32_DisableTakesKeyOut ==
    [][sysOp'.op \in {"disable", "delete"} =>
          C32_OutOfContext(sysOp'.ctx, ParseKey(sysOp'.str))]_vars

\* C32 amended: DisableShortcut and DeleteShortcut clear the flag of the
\* first entry for the key in the context and change nothing else; the key
\* is out of the context afterwards when no entry for it but the first was
\* enabled, and otherwise the lookup gives the first of the later entries
\* that is enabled.
C32_DisableTakesFirstOut ==
    [][sysOp'.op \in {"disable", "delete"} =>
          LET key == ParseKey(sysOp'.str)
              c == sysOp'.ctx
              at == RegisteredAt(c, key)
              later == { i \in EnabledAt(c, key) : \E j \in at : j < i }
          IN  /\ C29_OnlyFirstFlag(FALSE)
              /\ later = {} => C32_OutOfContext(c, key)
              /\ later # {} =>
                    GetShortcut(shortcuts', key, c) =
                       <<shortcuts[c][CHOOSE i \in later : \A j \in later : i <= j]>>]_vars

\* C32 witness: DeleteShortcut was called for a key with two entries in the
\* context, the first registered enabled and the second disabled; no entry
\* is enabled now and the key event runs nothing
C32_Witness ==
    LET key == ParseKey(sysOp.str)
    IN  /\ sysOp.op = "delete"
        /\ Cardinality(RegisteredAt(sysOp.ctx, key)) = 2
        /\ Len(conflicts[key]) = 2
        /\ conflicts[key][1].Enabled /\ ~conflicts[key][2].Enabled
        /\ EnabledAt(sysOp.ctx, key) = {}
        /\ \A msg \in KeyMsgs :
              MsgKey(msg) = key => HandleKey(shortcuts, sysOp.ctx, msg) = NoCmd

\* C33: GetShortcutsForContext is a pure query: it leaves the list of every
\* context of the registry as it was, in content and in order.
C33_ListingIsPure ==
    [][sysOp'.op = "list" => shortcuts' = shortcuts]_vars

\* C34: every shortcut held in a conflict bucket equals, in every field, a
\* shortcut in the list of its context, whatever register, enable, disable
\* and update calls were made.
C34_IndexesConsistent ==
    \A key \in DOMAIN conflicts :
        \A i \in 1..Len(conflicts[key]) :
            LET s == conflicts[key][i]
            IN  \E j \in 1..Len(shortcuts[s.Context]) : shortcuts[s.Context][j] = s

\* the configurations whose registry holds every key at most once
C35_OnceConfigs ==
    { c \in CreateStartConfigs :
         \A reg \in Applied(c.Shortcuts) :
             \A key \in DOMAIN reg.conflicts : Len(reg.conflicts[key]) <= 1 }

\* after the step every conflict bucket has at most 2 shortcuts, when the
\* system was constructed with every key registered at most once
C35_BucketsBounded ==
    config' \in C35_OnceConfigs =>
        \A key \in DOMAIN conflicts' : Len(conflicts'[key]) <= 2

\* a CreateShortcut for a key with two or more registrations is rejected
\* and registers nothing
C35_LaterRejected ==
    LET key == ParseKey(sysOp'.str)
    IN  (key \in DOMAIN conflicts /\ Len(conflicts[key]) >= 2) =>
           (sysOp'.err # "" /\ conflicts' = conflicts /\ shortcuts' = shortcuts)

\* the CreateShortcut step registered its key, the bucket having had one
\* shortcut
C35_Succeeded ==
    LET key == ParseKey(sysOp'.str)
    IN  /\ sysOp'.err = ""
        /\ Len(conflicts'[key]) = 2
        /\ Len(shortcuts'[sysOp'.ctx]) = Len(shortcuts[sysOp'.ctx]) + 1

\* C35 as claimed: from a registry with every key registered at most once,
\* CreateShortcut calls keep every conflict bucket at size at most 2; a
\* CreateShortcut for a key registered exactly once succeeds, and every
\* later one for that key is rejected.
C35_ValidationBounds ==
    [][sysOp'.op = "create" =>
          LET key == ParseKey(sysOp'.str)
          IN  /\ C35_BucketsBounded
              /\ C35_LaterRejected
              /\ (key \in DOMAIN conflicts /\ Len(conflicts[key]) = 1) =>
                    C35_Succeeded]_vars

\* C35 amended: as claimed, but the CreateShortcut for a key registered
\* exactly once succeeds when the key has a base key; for a key without one
\* it is rejected like every other.
C35_ValidationBoundsForBaseKeys ==
    [][sysOp'.op = "create" =>
          LET key == ParseKey(sysOp'.str)
          IN  /\ C35_BucketsBounded
              /\ C35_LaterRejected
              /\ (key \in DOMAIN conflicts /\ Len(conflicts[key]) = 1) =>
                    IF key.Key # "" THEN C35_Succeeded
                    ELSE sysOp'.err # "" /\ conflicts' = conflicts]_vars

\* C35 witness: on the default registry, in which ctrl+k is registered once,
\* a first CreateShortcut for ctrl+k succeeded and the second was rejected;
\* the bucket has two shortcuts
C35_Witness ==
    /\ config = DefaultConfig
    /\ sysOp.op = "create" /\ sysOp.err = "conflict"
    /\ sysOp.str = CtrlPlus \o <<"k">>
    /\ Len(conflicts[ParseKey(sysOp.str)]) = 2
    /\ nextHandler = 2

\* the keys of the two compiled-in default sets
C39_Keys ==
    { ParseKey(registerDefaultShortcuts[i].Key) : i \in 1..Len(registerDefaultShortcuts) }
       \cup { ParseKey(getDefaultShortcuts[i].Key) : i \in 1..Len(getDefaultShortcuts) }

\* the action of the shortcut HandleKey runs for a key in a context: that of
\* the context's enabled shortcut for the key, else that of Global's, else ""
C39_Action(sc, ctx, key) ==
    LET c == GetShortcut(sc, key, ctx)
        g == GetShortcut(sc, key, ContextGlobal)
    IN  IF c # <<>> THEN c[1].Action
        ELSE IF ctx # ContextGlobal /\ g # <<>> THEN g[1].Action
        ELSE ""

\* C39: a ShortcutSystem constructed with the default configuration (no
\* file, or a file that cannot be loaded) resolves, in every context, every
\* key to the action a fresh ShortcutManager resolves it to.
C39_DefaultSetsAgree ==
    (sysOp.op = "new" /\ config.Shortcuts = getDefaultShortcuts) =>
        \A ctx \in Contexts, key \in C39_Keys :
            C39_Action(shortcuts, ctx, key)
               = C39_Action(NewShortcutManager.shortcuts, ctx, key)

\* C40: for every ShortcutKey k that ParseKey produced, ParseKey(k.String())
\* is k: a call whose key string is the String of the key of the call before
\* yields that key.
C40_KeyStringRoundTrip ==
    [][(parsed # <<>> /\ parsed' # parsed
          /\ parsed'[1].str = KeyString(parsed[1].key)) =>
          parsed'[1].key = parsed[1].key]_vars

\* C40 witness: a key string with the three modifiers, written otherwise
\* than String writes it, was parsed, and the String of its key was parsed
\* to the same key
C40_Witness ==
    /\ Len(parsed) = 2
    /\ parsed[2].key.Modifier = ModCtrlAltShift
    /\ parsed[2].key.Key = "K"
    /\ parsed[1].str = KeyString(parsed[2].key)
    /\ parsed[1].str # parsed[2].str
    /\ parsed[1].key = parsed[2].key

\* C40 witness of the key without a base key: "Ctrl+" was parsed again
C40_WitnessEmpty ==
    /\ Len(parsed) = 2
    /\ parsed[2].key = [Key |-> "", Modifier |-> ModCtrl]
    /\ parsed[1].str = <<"C", "t", "r", "l", "+">>
    /\ parsed[1].key = parsed[2].key

\* the refreshProcessesMsg the step added to the messages in flight
C36_NewMessages ==
    { m \in BagToSet(pending') :
         /\ m.t = "refreshMsg"
         /\ CopiesIn(m, pending') > CopiesIn(m, pending) }

\* C36: with the filter a new ProcessList view starts with, no key having
\* changed it, a refresh of the ProcessList view that the provider answers
\* keeps every live process that is not a system process, whatever its CPU
\* and memory percentages.
C36_InitialFilterKeepsAll ==
    [][(/\ last'.ev = "exec" /\ last'.t = "refreshCmd" /\ last'.o = ViewProcesses
        /\ filters[processes.filter] = ZeroFilter
        /\ processes.filter = NewProcessesModel.filter) =>
          \A m \in C36_NewMessages :
              \/ m.procs = <<>>
              \/ \A pid \in live :
                    ~isSystemProcess(pid) => \E i \in 1..Len(m.procs) : m.procs[i] = pid]_vars

\* C37: when enter was pressed on the selected process of the ProcessList
\* view and the switch it asked for is made next, Details is the view shown
\* and, holding that process in its snapshot, selects it.
C37_EnterSelectsProcess ==
    [][(/\ last.ev = "key" /\ last.key = "enter" /\ last.view = ViewProcesses
        /\ Len(processes.processes) > 0
        /\ last'.ev = "deliver" /\ last'.t = "switchView" /\ last'.o = ViewProcesses) =>
          LET pid == processes.processes[processes.selectedIndex + 1]
          IN  /\ currentView' = ViewDetails
              /\ (\E i \in 1..Len(details'.processes) : details'.processes[i] = pid) =>
                    details'.processes[details'.selectedIndex + 1] = pid]_vars

\* C38: in every state the showSystem flag of the ProcessList view equals
\* the ShowSystem field of its filter, whatever keys among s, f and ctrl+r
\* were pressed and whichever of their commands have run.
C38_ShowSystemInSync ==
    processes.showSystem = filters[processes.filter].ShowSystem

====
